---- MODULE Spec2Model ----
(***************************************************************************)
(* Battery state-update engine of simses-lite: the equivalent-circuit      *)
(* solver with current limiting and linear voltage derating                *)
(* (simses/battery/battery.py), the half-cycle detector                    *)
(* (simses/degradation/cycle_detector.py), the degradation model that      *)
(* composes a calendar and a cyclic strategy                               *)
(* (simses/degradation/degradation.py), the Sony LFP strategies            *)
(* (simses/model/degradation/), and the room thermal model that writes the *)
(* battery's temperature (simses/thermal/thermal.py).                      *)
(*                                                                         *)
(* Specifications.  Spec: a battery without degradation model, registered  *)
(* with a room thermal model.  DetectorSpec: a half-cycle detector fed soc *)
(* samples.  DegradationSpec: a battery with a degradation model of        *)
(* counting or no-op strategies, registered with a room thermal model.     *)
(* SonySpec: a Sony LFP calendar or cyclic model called directly.          *)
(*                                                                         *)
(* Numbers.  The program computes in binary floating point; the model      *)
(* computes on fixed-point grids and rounds every quotient and square root *)
(* to the nearest grid point, as IEEE arithmetic rounds to the nearest     *)
(* representable value.  The grids are                                     *)
(*    voltage     1/VoltScale V    (uV)     current  1/CurrentScale A (mA) *)
(*    resistance  1/OhmScale Ohm   (uOhm)   power    1/PowerScale W        *)
(*    loss        1/LossScale W    (mW)     time     s                     *)
(*    capacity    Ah                        soc      1/SocScale            *)
(*    soh         1/SohScale                temperature  1/TempScale K     *)
(* Voltage and resistance share one scale, so that V / R is a current in   *)
(* amperes.  One step of the current grid moves the soc by about one step  *)
(* of the soc grid in an hour, and the terminal voltage by one step of the *)
(* voltage grid, so that a rounding of the current shows in the soc and in *)
(* the voltage as a rounding of the floating-point current does.  Integers *)
(* are 32 bits wide: products that do not fit are formed by MulDiv, and a  *)
(* power setpoint is at most MaxInt steps of the power grid (about 21 MW). *)
(*                                                                         *)
(* State class.  simses/battery/state.py declares BatteryState with 13     *)
(* fields, without the i_max_charge and i_max_discharge that Battery       *)
(* passes to the constructor and writes in update: with the class as       *)
(* declared, Battery(...) raises TypeError and no battery exists.  Init    *)
(* chooses between the class as declared and the class with the two        *)
(* fields, as the specification of the state describes it; the battery     *)
(* operations act on a battery that was built.                             *)
(***************************************************************************)
EXTENDS Integers, Sequences, FiniteSets, TLC

(* ------------------------------------------------------------------ *)
(* grids and bounds                                                   *)
(* ------------------------------------------------------------------ *)
SecondsPerHour == 3600
\* soc grid steps per 1/3600 p.u.: an ampere flowing for a second into an
\* ampere-hour of capacity moves the soc by SocPerSecond grid steps
SocPerSecond == 30
SocScale == SocPerSecond * SecondsPerHour
SohScale == 1000
VoltScale == 1000000
OhmScale == 1000000
CurrentScale == 1000
PowerScale == 100
LossScale == 1000
TempScale == 10000
MaxSteps == 2
MaxDegradedSteps == 3
MaxSamples == 4
MaxCalls == 4
MaxInt == 2147483647
\* the radicand of the closed form is kept in squares of a unit of voltage
\* (a millivolt, or ten for a setpoint beyond the range of millivolts) with a
\* fraction in 1/RadicandScale, and its root in 1/RootPerUnit of that unit
MilliVolt == VoltScale \div 1000
RadicandScale == MilliVolt * MilliVolt
RootPerUnit == 10000

\* "None" of an optional derate-start voltage (properties.py: float | None)
None == 0 - 1

(* ------------------------------------------------------------------ *)
(* arithmetic                                                         *)
(* ------------------------------------------------------------------ *)
Abs(x) == IF x < 0 THEN 0 - x ELSE x

Min2(a, b) == IF a <= b THEN a ELSE b

Max2(a, b) == IF a >= b THEN a ELSE b

Min3(a, b, c) == Min2(a, Min2(b, c))

Max3(a, b, c) == Max2(a, Max2(b, c))

\* the element of a set of one element: a value computed once and named
Only(S) == CHOOSE x \in S : TRUE

\* quotient a / b (b > 0) rounded to the nearest grid point, ties away from 0
DivRound(a, b) ==
    LET n == Abs(a)
        q == n \div b
        h == IF 2 * (n % b) >= b THEN q + 1 ELSE q
    IN  IF a >= 0 THEN h ELSE 0 - h

RECURSIVE LongDivision(_, _, _)
\* quotient and remainder of ra * m / c (0 <= ra < c, m >= 0), m taken four
\* bits at a time so that no intermediate value exceeds 31 * c
LongDivision(ra, m, c) ==
    IF m = 0 THEN <<0, 0>>
    ELSE LET p == LongDivision(ra, m \div 16, c)
             t == p[2] * 16 + ra * (m % 16)
         IN  <<p[1] * 16 + t \div c, t % c>>

\* a * b / c (c > 0) rounded to the nearest grid point, ties away from 0; the
\* product is formed directly when it fits 32 bits and by long division
\* otherwise
MulDiv(a, b, c) ==
    LET n == Abs(a)
        m == Abs(b)
    IN  IF m = 0 \/ n <= MaxInt \div m
        THEN DivRound(a * b, c)
        ELSE LET p == LongDivision(n % c, m, c)
                 q == (n \div c) * m + p[1]
                 h == IF 2 * p[2] >= c THEN q + 1 ELSE q
             IN  IF (a >= 0) = (b >= 0) THEN h ELSE 0 - h

\* a * b / c for a, b >= 0 and c > 0, exactly: <<quotient, remainder>>
WideDivision(a, b, c) ==
    IF b = 0 \/ a <= MaxInt \div b
    THEN <<(a * b) \div c, (a * b) % c>>
    ELSE LET p == LongDivision(a % c, b, c)
         IN  <<(a \div c) * b + p[1], p[2]>>

Sign(x) == IF x > 0 THEN 1 ELSE IF x < 0 THEN 0 - 1 ELSE 0

\* the quotient a * b / c (c > 0) before it is rounded to a grid:
\* sign * (whole + rest / over) with 0 <= rest < over
Quotient(a, b, c) ==
    LET d == WideDivision(Abs(a), Abs(b), c)
    IN  [sign |-> Sign(a) * Sign(b), whole |-> d[1], rest |-> d[2], over |-> c]

\* Sign(x - y) for two such quotients
Order(x, y) ==
    IF x.sign # y.sign THEN Sign(x.sign - y.sign)
    ELSE IF x.whole # y.whole THEN x.sign * Sign(x.whole - y.whole)
    ELSE x.sign * Sign(x.rest * y.over - y.rest * x.over)

\* the least and the greatest of a non-empty finite set of integers
MinOf(S) == CHOOSE x \in S : \A y \in S : x <= y

MaxOf(S) == CHOOSE x \in S : \A y \in S : x >= y

(* ------------------------------------------------------------------ *)
(* floating point                                                     *)
(*                                                                    *)
(* Three comparisons of Battery.update are decided below the grids:   *)
(* the sign of a radicand next to zero, the comparison of the         *)
(* terminal voltage with a derate-start voltage next to it, and the   *)
(* comparison of the soc with a bound of the window that the soc      *)
(* candidate of calculate_max_currents carries it to.  The first two  *)
(* follow the soc, which the program holds unrounded and the model on *)
(* its grid; the third follows the rounding of the floating-point     *)
(* arithmetic.  The same inputs always fall the same way in the       *)
(* program; the model takes the way they fall as an argument of       *)
(* update and admits every value of it.                               *)
(* ------------------------------------------------------------------ *)
\* sqrt_negative: a radicand that is not of one sign over the states of the
\*    program that the model shows as one is computed negative, and
\*    math.sqrt raises
\* derate_at_start: a terminal voltage that is not on one side of the
\*    derate-start voltage over those states is computed past it, and the
\*    derated current below the current
\* soc_past_bound: a soc carried to a bound of the window by the soc
\*    candidate is computed past the bound (by a unit in the last place)
Roundings ==
    [sqrt_negative : BOOLEAN, derate_at_start : BOOLEAN, soc_past_bound : BOOLEAN]

\* every comparison of quantities that close falls as an equality
Nearest ==
    [sqrt_negative |-> FALSE, derate_at_start |-> FALSE, soc_past_bound |-> FALSE]

\* the ways of rounding that differ from Nearest only in the comparisons
\* named in depends
RoundingsOf(depends) ==
    {fp \in Roundings : \A k \in DOMAIN fp : fp[k] => k \in depends}

RECURSIVE SqrtSearch(_, _, _)
\* largest r in lo..hi with r * r <= n (bisection; hi * hi stays below 2^31)
SqrtSearch(n, lo, hi) ==
    IF lo >= hi THEN lo
    ELSE LET mid == (lo + hi + 1) \div 2
         IN  IF mid * mid <= n THEN SqrtSearch(n, mid, hi)
                               ELSE SqrtSearch(n, lo, mid - 1)

\* math.sqrt on the grid: the integer nearest to the square root of n >= 0
Sqrt(n) ==
    LET r == SqrtSearch(n, 0, 46340)
    IN  IF n - r * r > r THEN r + 1 ELSE r

\* the series of sqrt(r^2 + x) about r > 0, on the grid of 1/RadicandScale:
\* F - F^2 / (2 r) for the first term F = x / (2 r)
series_correction(F, r) == F - DivRound(MulDiv(F, F, RadicandScale), 2 * r)

\* sqrt(n + frac / RadicandScale) on the grid of 1/RootPerUnit from the
\* integer root r of n
series_root(n, frac, r) ==
    r * RootPerUnit
    + DivRound(series_correction(MulDiv(n - r * r, RadicandScale, 2 * r)
                                 + DivRound(frac, 2 * r), r),
               RadicandScale \div RootPerUnit)

\* sqrt(n + frac / RadicandScale), n >= 0, on the grid of 1/RootPerUnit: a
\* small radicand is scaled by RootPerUnit and its root taken directly, a
\* larger one is taken from its integer root by the series
SqrtSeries(n, frac) ==
    IF n <= MaxInt \div RadicandScale - 1
    THEN (RadicandScale \div RootPerUnit)
         * Sqrt(n * RootPerUnit + frac \div (RadicandScale \div RootPerUnit))
    ELSE series_root(n, frac, SqrtSearch(n, 0, 46340))

\* math.sqrt of a radicand d.int + d.frac / RadicandScale (d.int >= 0, in
\* squares of d.unit) on the grid of 1/RootPerUnit of d.unit.  A radicand
\* that fits 32 bits in squares of a thousandth of the unit is taken there,
\* so that a root near zero keeps its resolution.
SqrtFine(d) ==
    IF d.int <= MaxInt \div RadicandScale - 1
    THEN DivRound(SqrtSeries(d.int * RadicandScale + d.frac, 0), MilliVolt)
    ELSE SqrtSeries(d.int, d.frac)

(* ------------------------------------------------------------------ *)
(* the cell (tests/test_battery.py SimpleCell) and the circuit        *)
(* ------------------------------------------------------------------ *)
nominal_capacity_cell == 100
cell_min_voltage == 3000000
cell_max_voltage == 4200000
max_charge_rate == 1
max_discharge_rate == 1
RINT == 1000
serial == 1
parallel == 1
start_T == 2981500

\* SimpleCell.open_circuit_voltage: min_v + soc * (max_v - min_v)
cell_open_circuit_voltage(st) ==
    cell_min_voltage + MulDiv(st.soc, cell_max_voltage - cell_min_voltage, SocScale)

\* CellType.hystheresis_voltage: default 0
cell_hystheresis_voltage(st) == 0

\* SimpleCell.internal_resistance: constant
cell_internal_resistance(st) == RINT

(* ------------------------------------------------------------------ *)
(* Battery properties                                                 *)
(* ------------------------------------------------------------------ *)
nominal_capacity == nominal_capacity_cell * parallel

min_voltage == cell_min_voltage * serial

max_voltage == cell_max_voltage * serial

max_charge_current ==
    nominal_capacity_cell * max_charge_rate * parallel * CurrentScale

max_discharge_current ==
    nominal_capacity_cell * max_discharge_rate * parallel * CurrentScale

charge_derate_voltage_start(c) ==
    IF c.charge_derate = None THEN None ELSE c.charge_derate * serial

discharge_derate_voltage_start(c) ==
    IF c.discharge_derate = None THEN None ELSE c.discharge_derate * serial

has_linear_derating(c) ==
    c.charge_derate # None \/ c.discharge_derate # None

open_circuit_voltage(st) == cell_open_circuit_voltage(st) * serial

hystheresis_voltage(st) == cell_hystheresis_voltage(st) * serial

\* cell rint / parallel * serial * soh_R
internal_resistance(st) ==
    DivRound(cell_internal_resistance(st) * serial * st.soh_R, parallel * SohScale)

\* nominal_capacity * soh_Q, in Ah / SohScale
capacity(st) == nominal_capacity * st.soh_Q

\* rint * i, a voltage
ohmic_drop(rint, i) == MulDiv(rint, i, (CurrentScale * OhmScale) \div VoltScale)

\* dv / rint, a current
current_through(dv, rint) == MulDiv(dv, (CurrentScale * OhmScale) \div VoltScale, rint)

(* ------------------------------------------------------------------ *)
(* BatteryState (state.py) and Battery.initialize_state               *)
(* ------------------------------------------------------------------ *)
\* the fields state.py declares (the class has slots: an instance has these
\* attributes and no others)
BatteryState_declared ==
    {"v", "i", "T", "power", "power_setpoint", "soc", "ocv", "hys", "rint",
     "soh_Q", "soh_R", "is_charge", "loss"}

\* the two fields that Battery.initialize_state passes and Battery.update
\* assigns but state.py does not declare: the most recent hard current
\* bounds, the charge bound >= 0 and the discharge bound <= 0
BatteryState_bounds == {"i_max_charge", "i_max_discharge"}

\* the fields of a BatteryState that declares the two bounds as well
BatteryState_fields == BatteryState_declared \cup BatteryState_bounds

\* the class BatteryState a battery is built with: the one of state.py, or
\* the one with the two bounds
BatteryState_versions == {BatteryState_declared, BatteryState_fields}

\* BatteryState(**kw): the constructor of the dataclass takes exactly its
\* fields as keywords (a missing or an unexpected keyword is a TypeError)
BatteryState_accepts(slots, kw) == DOMAIN kw = slots

\* no BatteryState: the constructor raised
NoState == <<>>

\* the keywords initialize_state passes to BatteryState
initialize_state_keywords(start_soc, start_soh_Q, start_soh_R) ==
    [v |-> 0, i |-> 0, T |-> start_T, power |-> 0, power_setpoint |-> 0,
     loss |-> 0, soc |-> start_soc, ocv |-> 0, hys |-> 0,
     is_charge |-> TRUE, rint |-> 0,
     soh_Q |-> start_soh_Q, soh_R |-> start_soh_R,
     i_max_charge |-> 0, i_max_discharge |-> 0]

\* the assignments of initialize_state to the state just constructed
initialize_state_fill(s0) ==
    LET s1 == [s0 EXCEPT !.ocv = open_circuit_voltage(s0), !.v = open_circuit_voltage(s0)]
        s2 == [s1 EXCEPT !.hys = hystheresis_voltage(s1)]
    IN  [s2 EXCEPT !.rint = internal_resistance(s2)]

\* initialize_state for a BatteryState with the fields slots: "raised" tells
\* that BatteryState(...) raised TypeError, and there is no state then
initialize_state(slots, start_soc, start_soh_Q, start_soh_R) ==
    LET kw == initialize_state_keywords(start_soc, start_soh_Q, start_soh_R)
    IN  IF BatteryState_accepts(slots, kw)
        THEN [raised |-> FALSE, state |-> initialize_state_fill(kw)]
        ELSE [raised |-> TRUE, state |-> NoState]

(* ------------------------------------------------------------------ *)
(* Battery.equilibrium_current                                        *)
(* ------------------------------------------------------------------ *)
\* 4 * rint * power_setpoint on the grids of resistance and power is in units
\* of 1/(OhmScale * PowerScale) V^2: the number of those in the square of the
\* unit U of the radicand (U in 1/VoltScale V)
PowerPerRadicand(U) ==
    (PowerScale * OhmScale) \div ((VoltScale \div U) * (VoltScale \div U))

\* the unit of the radicand: a millivolt, unless 4 * rint * power_setpoint
\* in mV^2 does not fit 32 bits together with (ocv + hys)^2; ten millivolts then
radicand_unit(power_setpoint, rint) ==
    IF Abs(power_setpoint) \div PowerPerRadicand(MilliVolt)
           <= (MaxInt \div 2) \div (4 * rint)
    THEN MilliVolt
    ELSE 10 * MilliVolt

\* the radicand in squares of U.  The square of E = Eh U + e is
\* Eh^2 + 2 Eh e / U + e^2 / U^2; the product term is
\* 4 rint p / PowerPerRadicand(U), floored, with its fraction cf.
radicand_in(U, power_setpoint, E, rint) ==
    LET Eh  == E \div U
        e   == E % U
        t   == 2 * Eh * e
        n   == Abs(power_setpoint)
        pq  == n \div PowerPerRadicand(U)
        pr  == n % PowerPerRadicand(U)
        mi  == pq * (4 * rint) + (pr * (4 * rint)) \div PowerPerRadicand(U)
        mf  == (pr * (4 * rint)) % PowerPerRadicand(U)
        ci  == IF power_setpoint >= 0 THEN mi
               ELSE IF mf > 0 THEN 0 - mi - 1 ELSE 0 - mi
        cf  == IF power_setpoint >= 0 \/ mf = 0 THEN mf ELSE PowerPerRadicand(U) - mf
        Df  == (t % U) * U + e * e + cf * ((U * U) \div PowerPerRadicand(U))
    IN  [unit |-> U,
         int  |-> Eh * Eh + t \div U + ci + Df \div (U * U),
         frac |-> (Df % (U * U)) \div ((U * U) \div RadicandScale),
         rest |-> (Df % (U * U)) % ((U * U) \div RadicandScale)]

\* the radicand of the closed form, (ocv + hys)^2 + 4 * rint * power_setpoint:
\* its unit, its integer part, its fraction in 1/RadicandScale and what is
\* left below that; for arguments on the grids this is the radicand as a
\* real number
discriminant(power_setpoint, ocv, hys, rint) ==
    radicand_in(radicand_unit(power_setpoint, rint), power_setpoint, ocv + hys, rint)

\* The soc a state of the model holds is the soc of the program rounded to
\* the soc grid: the program adds i * dt / Q / 3600 as computed, the model
\* adds it rounded, and over the calls of a run the two stay within this
\* many steps of the grid.
SocSlack == 3

\* the open-circuit voltage of the program is that of a state of the model
\* within this: the voltage the cell gives to SocSlack steps of soc, and one
\* step of the voltage grid for its own rounding
OcvSlack ==
    1 + (SocSlack * (cell_max_voltage - cell_min_voltage) * serial) \div SocScale

\* the radicand is below zero
radicand_is_negative(d) == d.int < 0

\* the radicand is above zero
radicand_is_positive(d) == d.int > 0 \/ (d.int = 0 /\ (d.frac > 0 \/ d.rest > 0))

\* the sign of the argument of math.sqrt in the program: that of the
\* radicand where it is the same over the open-circuit voltages the program
\* can hold in a state the model shows as one of its own, and 0 where it is
\* not.  The radicand grows with the open-circuit voltage.
radicand_sign(power_setpoint, ocv, hys, rint) ==
    IF radicand_is_negative(discriminant(power_setpoint, ocv + OcvSlack, hys, rint))
    THEN 0 - 1
    ELSE IF radicand_is_positive(discriminant(power_setpoint, ocv - OcvSlack, hys, rint))
         THEN 1
         ELSE 0

\* math.sqrt raises ValueError("math domain error") on a negative argument.
\* The argument is the difference of two rounded products, ocv ** 2 and
\* -4 * rint * power_setpoint, of an open-circuit voltage that is itself
\* computed from the soc: where the two are as close as that, the argument
\* is negative, zero or positive as they fall.
sqrt_raises(sign, fp) == sign < 0 \/ (sign = 0 /\ fp.sqrt_negative)

equilibrium_current_raises(power_setpoint, ocv, hys, rint, fp) ==
    /\ power_setpoint # 0
    /\ sqrt_raises(radicand_sign(power_setpoint, ocv, hys, rint), fp)

\* math.sqrt of the radicand d on the grid of the root; a radicand that math.sqrt
\* has taken, and that the grids show below zero, is a radicand next to zero
radicand_root(d) == IF radicand_is_negative(d) THEN 0 ELSE SqrtFine(d)

\* steps of the grid of the root per volt, for a radicand in squares of unit
root_per_volt(unit) == RootPerUnit * (VoltScale \div unit)

\* a voltage on the grid of the root over 2 * rint, a current
half_over_rint(dv, rint, unit) ==
    MulDiv(dv, (CurrentScale * OhmScale) \div root_per_volt(unit), 2 * rint)

\* -(ocv - sqrt(d)) / (2 rint) for the radicand d
closed_form(d, E, rint) ==
    half_over_rint(0 - (E * (root_per_volt(d.unit) \div VoltScale) - radicand_root(d)),
                   rint, d.unit)

\* -(ocv + sqrt(d)) / (2 rint) for the radicand d
closed_form_other_root(d, E, rint) ==
    half_over_rint(0 - (E * (root_per_volt(d.unit) \div VoltScale) + radicand_root(d)),
                   rint, d.unit)

\* variant of solved: the other root of the quadratic
solved_other_root(d, sign, E, rint, fp) ==
    IF sqrt_raises(sign, fp)
    THEN [raised |-> TRUE,
          depends |-> IF sign = 0 THEN {"sqrt_negative"} ELSE {}]
    ELSE [raised |-> FALSE, i |-> closed_form_other_root(d, E, rint),
          depends |-> IF sign = 0 THEN {"sqrt_negative"} ELSE {}]

\* the outcome of the closed form for the radicand d, the sign of the
\* argument of math.sqrt being sign: "raised" tells that math.sqrt raised
\* ValueError, and there is no current then; "depends" names the comparison
\* the outcome has been decided by
solved(d, sign, E, rint, fp) ==
    IF sqrt_raises(sign, fp)
    THEN [raised |-> TRUE,
          depends |-> IF sign = 0 THEN {"sqrt_negative"} ELSE {}]
    ELSE [raised |-> FALSE, i |-> closed_form(d, E, rint),
          depends |-> IF sign = 0 THEN {"sqrt_negative"} ELSE {}]

\* variant: the ohmic term of the power balance neglected
equilibrium_current_no_ohmic_drop(power_setpoint, ocv, hys, rint, fp) ==
    [raised |-> FALSE,
     i |-> MulDiv(power_setpoint, (CurrentScale * VoltScale) \div PowerScale, ocv + hys),
     depends |-> {}]

\* variant: the other root of the quadratic, and no special case for p = 0
equilibrium_current_other_root(power_setpoint, ocv, hys, rint, fp) ==
    solved_other_root(discriminant(power_setpoint, ocv, hys, rint),
                      radicand_sign(power_setpoint, ocv, hys, rint),
                      ocv + hys, rint, fp)

\* -(ocv - sqrt(ocv^2 + 4 rint p)) / (2 rint), with ocv := ocv + hys; 0 for p = 0
equilibrium_current(power_setpoint, ocv, hys, rint, fp) ==
    IF power_setpoint = 0 THEN [raised |-> FALSE, i |-> 0, depends |-> {}]
    ELSE solved(discriminant(power_setpoint, ocv, hys, rint),
                radicand_sign(power_setpoint, ocv, hys, rint),
                ocv + hys, rint, fp)

(* ------------------------------------------------------------------ *)
(* Battery.calculate_max_currents                                     *)
(* ------------------------------------------------------------------ *)
\* variant: the soc distance taken with the wrong sign
soc_limit_current_sign(soc_bound, soc, dt, Q) ==
    MulDiv(soc - soc_bound, Q, SocPerSecond * dt)

\* (soc_bound - soc) * Q / (dt / 3600), with soc in 1/SocScale, Q in Ah/SohScale
\* and the current in A/CurrentScale:
\* (d / SocScale) * (Q / SohScale) * SecondsPerHour / dt * CurrentScale
\*     =  d * Q / (SocPerSecond * dt)      (SohScale = CurrentScale)
soc_limit_current(soc_bound, soc, dt, Q) ==
    MulDiv(soc_bound - soc, Q, SocPerSecond * dt)

\* variant: the voltage candidates left out
calculate_max_currents_no_voltage(c, st, dt, ocv, hys, rint, Q) ==
    [i_max_charge |->
        Min2(max_charge_current,
             soc_limit_current(c.soc_limits[2], st.soc, dt, Q)),
     i_max_discharge |->
        Max2(0 - max_discharge_current,
             soc_limit_current(c.soc_limits[1], st.soc, dt, Q))]

\* variant: the soc candidates left out
calculate_max_currents_no_soc(c, st, dt, ocv, hys, rint, Q) ==
    [i_max_charge |->
        Min2(max_charge_current, current_through(max_voltage - ocv - hys, rint)),
     i_max_discharge |->
        Max2(0 - max_discharge_current, current_through(min_voltage - ocv - hys, rint))]

calculate_max_currents(c, st, dt, ocv, hys, rint, Q) ==
    [i_max_charge |->
        Min3(max_charge_current,
             current_through(max_voltage - ocv - hys, rint),
             soc_limit_current(c.soc_limits[2], st.soc, dt, Q)),
     i_max_discharge |->
        Max3(0 - max_discharge_current,
             current_through(min_voltage - ocv - hys, rint),
             soc_limit_current(c.soc_limits[1], st.soc, dt, Q))]

(* ------------------------------------------------------------------ *)
(* Battery.linear_voltage_derating                                    *)
(* ------------------------------------------------------------------ *)
linear_voltage_derating(c, i, ocv, hys, rint) ==
    LET v == ocv + hys + ohmic_drop(rint, i)
        cdv == charge_derate_voltage_start(c)
        ddv == discharge_derate_voltage_start(c)
    IN  IF i = 0 THEN i
        ELSE IF i > 0
             THEN IF cdv = None THEN i
                  ELSE IF v <= cdv THEN i
                  ELSE IF v >= max_voltage THEN 0
                  ELSE MulDiv(i, max_voltage - v, max_voltage - cdv)
             ELSE IF ddv = None THEN i
                  ELSE IF v >= ddv THEN i
                  ELSE IF v <= min_voltage THEN 0
                  ELSE MulDiv(i, v - min_voltage, ddv - min_voltage)

\* The comparisons "i_derate < i" and "i_derate > i" of update are made on
\* the currents as computed, before any rounding to the current grid: the
\* derated current i * (max_voltage - v) / (max_voltage - cdv), or 0 beyond
\* max_voltage, is below i > 0 exactly when the terminal voltage v at i has
\* passed the derate-start voltage.  The side of v is therefore taken from
\* the quantities the current was computed from, which are on the grids,
\* and not from the current rounded to its grid.

\* the power grid steps in (1/VoltScale V)^2 / (1/OhmScale Ohm)
PowerPerVoltSquare == (VoltScale \div PowerScale) * (VoltScale \div OhmScale)

\* Sign(v - level) for the terminal voltage v at the solved current of
\* power_setpoint.  The power i * (ocv + hys + rint * i) and v grow with i
\* on the branch of the closed form, so v has passed level exactly when
\* power_setpoint has passed the power at the current that gives level,
\* (level - ocv - hys) / rint * level.
solved_voltage_order(power_setpoint, ocv, hys, rint, level) ==
    Order(Quotient(power_setpoint, 1, 1),
          Quotient(level - ocv - hys, level, rint * PowerPerVoltSquare))

\* Sign(v - level) for the terminal voltage v at a current i given as a
\* quotient: v - level has the sign of i - (level - ocv - hys) / rint
limit_voltage_order(i, ocv, hys, rint, level) ==
    Order(i, Quotient(level - ocv - hys, (CurrentScale * OhmScale) \div VoltScale, rint))

\* the three charge candidates of calculate_max_currents as quotients
charge_limits(c, st, dt, ocv, hys, rint, Q) ==
    {Quotient(max_charge_current, 1, 1),
     Quotient(max_voltage - ocv - hys, (CurrentScale * OhmScale) \div VoltScale, rint),
     Quotient(c.soc_limits[2] - st.soc, Q, SocPerSecond * dt)}

\* the three discharge candidates of calculate_max_currents as quotients
discharge_limits(c, st, dt, ocv, hys, rint, Q) ==
    {Quotient(0 - max_discharge_current, 1, 1),
     Quotient(min_voltage - ocv - hys, (CurrentScale * OhmScale) \div VoltScale, rint),
     Quotient(c.soc_limits[1] - st.soc, Q, SocPerSecond * dt)}

\* Sign(v - level) for the terminal voltage v at the curtailed current: the
\* least of the solved current and the charge candidates for a charge
\* setpoint, the greatest of the solved current and the discharge
\* candidates for a discharge setpoint
curtailed_voltage_order(c, st, power_setpoint, dt, ocv, hys, rint, Q, level) ==
    IF power_setpoint > 0
    THEN MinOf({solved_voltage_order(power_setpoint, ocv, hys, rint, level)}
               \cup {limit_voltage_order(x, ocv, hys, rint, level) :
                        x \in charge_limits(c, st, dt, ocv, hys, rint, Q)})
    ELSE MaxOf({solved_voltage_order(power_setpoint, ocv, hys, rint, level)}
               \cup {limit_voltage_order(x, ocv, hys, rint, level) :
                        x \in discharge_limits(c, st, dt, ocv, hys, rint, Q)})

\* the states of the program that the model shows as the state st: the soc
\* within SocSlack steps of the grid
states_shown_as(st) ==
    {[st EXCEPT !.soc = soc] : soc \in {st.soc - SocSlack, st.soc, st.soc + SocSlack}}

\* Sign(v - level) at the curtailed current in the program: that of
\* curtailed_voltage_order where it is the same over the states the model
\* shows as st, and 0 where it is not.  The terminal voltage at the
\* curtailed current grows with the soc, or falls with it, between two of
\* these states.
derate_voltage_order(c, st, power_setpoint, dt, hys, rint, Q, level) ==
    LET orders == {curtailed_voltage_order(c, near, power_setpoint, dt,
                                           open_circuit_voltage(near), hys, rint, Q, level) :
                      near \in states_shown_as(st)}
    IN  IF orders = {1} THEN 1
        ELSE IF orders = {0 - 1} THEN 0 - 1
        ELSE 0

\* the derate-start voltage of the direction of the current i
derate_voltage_start(c, i) ==
    IF i > 0 THEN charge_derate_voltage_start(c)
    ELSE IF i < 0 THEN discharge_derate_voltage_start(c)
    ELSE None

\* i > 0 and i_derate < i (battery.py:95), order being Sign(v - cdv) at the
\* curtailed current i
derating_reduces_charge(c, i, order, fp) ==
    /\ i > 0
    /\ charge_derate_voltage_start(c) # None
    /\ (order > 0 \/ (order = 0 /\ fp.derate_at_start))

\* i < 0 and i_derate > i (battery.py:98), order being Sign(v - ddv) at the
\* curtailed current i
derating_reduces_discharge(c, i, order, fp) ==
    /\ i < 0
    /\ discharge_derate_voltage_start(c) # None
    /\ (order < 0 \/ (order = 0 /\ fp.derate_at_start))

\* the two comparisons of step 4 for the curtailed current i, and whether
\* the rounding has decided them
derating_reduction(c, i, order, fp) ==
    [charge    |-> derating_reduces_charge(c, i, order, fp),
     discharge |-> derating_reduces_discharge(c, i, order, fp),
     depends   |-> IF derate_voltage_start(c, i) # None /\ order = 0
                   THEN {"derate_at_start"} ELSE {}]

\* no derating strategy: step 4 is skipped
no_reduction == [charge |-> FALSE, discharge |-> FALSE, depends |-> {}]

(* ------------------------------------------------------------------ *)
(* Battery.update                                                     *)
(* ------------------------------------------------------------------ *)
\* variant: the solved current is not curtailed
curtail_none(i, i_max_charge, i_max_discharge) == i

\* step 3: curtail the solved current to the hard limits
curtail(i, i_max_charge, i_max_discharge) ==
    IF i > 0 THEN Min2(i, i_max_charge)
    ELSE IF i < 0 THEN Max2(i, i_max_discharge)
    ELSE i

\* variant: the reported charge bound follows the current on every call
overwrite_charge_bound_always(reduced, i_max_charge, i_derate) ==
    Min2(i_max_charge, i_derate)

\* step 4: i_max_charge = min(i_max_charge, i_derate), in the branch taken when
\* derating has reduced a charge current
overwrite_charge_bound(reduced, i_max_charge, i_derate) ==
    IF reduced THEN Min2(i_max_charge, i_derate) ELSE i_max_charge

\* step 4: i_max_discharge = max(i_max_discharge, i_derate), in the branch
\* taken when derating has reduced a discharge current
overwrite_discharge_bound(reduced, i_max_discharge, i_derate) ==
    IF reduced THEN Max2(i_max_discharge, i_derate) ELSE i_max_discharge

\* variant: the charge moved taken with the opposite sign
soc_step_reversed(i, dt, Q) == MulDiv(0 - i, dt * SocPerSecond, Q)

\* i * dt / Q / 3600 on the soc grid:
\* (i / CurrentScale) * dt / (Q / SohScale) / SecondsPerHour * SocScale
\*     =  i * dt * SocPerSecond / Q        (SohScale = CurrentScale)
soc_step(i, dt, Q) == MulDiv(i, dt * SocPerSecond, Q)

\* variant: the soc is not clamped to the window
clamp_soc_none(soc, soc_limits) == soc

\* soc = max(soc_min, min(soc, soc_max))
clamp_soc(soc, soc_limits) == Max2(soc_limits[1], Min2(soc, soc_limits[2]))

\* power = v * i
terminal_power(v, i) == MulDiv(v, i, (VoltScale * CurrentScale) \div PowerScale)

\* loss = rint * i ** 2
ohmic_loss(rint, i) ==
    MulDiv(MulDiv(i, i, CurrentScale), rint, (CurrentScale * OhmScale) \div LossScale)

\* is_charge = state.is_charge if i == 0 else i > 0, where state.is_charge has
\* already been overwritten with (power_setpoint > 0) at the top of update
direction_flag(i, flag_at_entry) == IF i = 0 THEN flag_at_entry ELSE i > 0

\* the assignments to self.state at the end of update (battery.py:120-131).
\* A BatteryState without the attribute i_max_charge takes the first ten and
\* raises AttributeError at the eleventh.
write_back(entered, power_setpoint, ocv, hys, rint, v, i, soc, i_max_charge, i_max_discharge) ==
    IF BatteryState_bounds \subseteq DOMAIN entered
    THEN [raised |-> FALSE, error |-> "none",
          state  |-> [entered EXCEPT
                         !.v = v,
                         !.i = i,
                         !.power = terminal_power(v, i),
                         !.power_setpoint = power_setpoint,
                         !.loss = ohmic_loss(rint, i),
                         !.soc = soc,
                         !.ocv = ocv,
                         !.hys = hys,
                         !.rint = rint,
                         !.is_charge = direction_flag(i, entered.is_charge),
                         !.i_max_charge = i_max_charge,
                         !.i_max_discharge = i_max_discharge]]
    ELSE [raised |-> TRUE, error |-> "AttributeError",
          state  |-> [entered EXCEPT
                         !.v = v,
                         !.i = i,
                         !.power = terminal_power(v, i),
                         !.power_setpoint = power_setpoint,
                         !.loss = ohmic_loss(rint, i),
                         !.soc = soc,
                         !.ocv = ocv,
                         !.hys = hys,
                         !.rint = rint,
                         !.is_charge = direction_flag(i, entered.is_charge)]]

\* the bound of the soc window in the direction of the current i
soc_bound(c, i) == IF i > 0 THEN c.soc_limits[2] ELSE c.soc_limits[1]

\* the committed current i is the soc candidate of calculate_max_currents in
\* its direction, (soc_bound - soc) * Q / (dt / 3600)
soc_limit_binds(c, soc, i, dt, Q) ==
    i # 0 /\ i = soc_limit_current(soc_bound(c, i), soc, dt, Q)

\* soc = state.soc + i * dt / Q / 3600, before the clamp.  "binds": i is the
\* soc candidate, (soc_bound - soc) * Q / (dt / 3600) before its rounding to
\* the current grid, and i * dt / Q / 3600 is soc_bound - soc as a real
\* number; "past": the sum is computed past the bound, by a unit in the last
\* place, which the soc grid shows as its next point.
unclamped_soc(c, soc, i, dt, Q, binds, past) ==
    IF binds THEN soc_bound(c, i) + (IF past THEN Sign(i) ELSE 0)
             ELSE soc + soc_step(i, dt, Q)

\* the voltage limit in the direction of the current i
voltage_bound(i) == IF i > 0 THEN max_voltage ELSE min_voltage

\* the committed current i is the voltage candidate of calculate_max_currents
\* in its direction, (voltage_bound - ocv - hys) / rint
voltage_limit_binds(i, ocv, hys, rint) ==
    i # 0 /\ i = current_through(voltage_bound(i) - ocv - hys, rint)

\* v = ocv + hys + rint * i.  "binds": i is the voltage candidate
\* (voltage_bound - ocv - hys) / rint before its rounding to the current
\* grid, and rint * i is voltage_bound - ocv - hys as a real number.  The
\* product is computed within two units in the last place of a difference
\* below 2 V, which is less than half a unit in the last place of the
\* limit, so the sum is computed as the limit itself.
terminal_voltage(i, ocv, hys, rint, binds) ==
    IF binds THEN voltage_bound(i) ELSE ocv + hys + ohmic_drop(rint, i)

\* steps 4 to 6 of update, from the curtailed current i_cl, the derated
\* current i_der and the comparisons der of step 4: the overwrite of the
\* reported bound, the soc step and its clamp, and the write-back.  A current
\* that derating has reduced is below the soc candidate and carries the soc
\* short of the bound.
update_commit(c, entered, power_setpoint, dt, ocv, hys, rint, Q, lim, i_cl, i_der, der, fp) ==
    LET i == IF der.charge \/ der.discharge THEN i_der ELSE i_cl
    IN  write_back(entered, power_setpoint, ocv, hys, rint,
                   terminal_voltage(i, ocv, hys, rint,
                                    ~(der.charge \/ der.discharge)
                                        /\ voltage_limit_binds(i, ocv, hys, rint)),
                   i,
                   clamp_soc(unclamped_soc(c, entered.soc, i, dt, Q,
                                           soc_limit_binds(c, entered.soc, i, dt, Q),
                                           ~(der.charge \/ der.discharge)
                                               /\ fp.soc_past_bound),
                             c.soc_limits),
                   overwrite_charge_bound(der.charge, lim.i_max_charge, i_der),
                   overwrite_discharge_bound(der.discharge, lim.i_max_discharge, i_der))
        @@ [depends |-> der.depends
                        \cup (IF ~(der.charge \/ der.discharge)
                                 /\ soc_limit_binds(c, entered.soc, i, dt, Q)
                              THEN {"soc_past_bound"} ELSE {})]

\* step 4 of update, from the curtailed current: linear voltage derating when
\* the battery has a derating strategy
update_derate(c, entered, power_setpoint, dt, ocv, hys, rint, Q, lim, i_cl, fp) ==
    update_commit(c, entered, power_setpoint, dt, ocv, hys, rint, Q, lim, i_cl,
                  IF has_linear_derating(c)
                  THEN linear_voltage_derating(c, i_cl, ocv, hys, rint)
                  ELSE i_cl,
                  IF has_linear_derating(c) /\ derate_voltage_start(c, i_cl) # None
                  THEN derating_reduction(c, i_cl,
                           derate_voltage_order(c, entered, power_setpoint, dt,
                                                hys, rint, Q,
                                                derate_voltage_start(c, i_cl)),
                           fp)
                  ELSE no_reduction,
                  fp)

\* step 3 of update, from the solved current i_eq and the hard limits lim
update_curtail(c, entered, power_setpoint, dt, ocv, hys, rint, Q, i_eq, lim, fp) ==
    update_derate(c, entered, power_setpoint, dt, ocv, hys, rint, Q, lim,
                  curtail(i_eq, lim.i_max_charge, lim.i_max_discharge), fp)

\* steps 1 and 2 of update, from the cell quantities read at entry and the
\* outcome eq of equilibrium_current.  "raised" tells that the call raised
\* and "error" what: ValueError when math.sqrt raised in
\* equilibrium_current, where the only assignment made before is the one to
\* state.is_charge.  "depends" names the comparisons that the rounding has
\* decided in this call.
update_solve(c, entered, power_setpoint, dt, ocv, hys, rint, Q, eq, fp) ==
    IF eq.raised
    THEN [raised |-> TRUE, error |-> "ValueError", state |-> entered,
          depends |-> eq.depends]
    ELSE [update_curtail(c, entered, power_setpoint, dt, ocv, hys, rint, Q,
                         eq.i,
                         calculate_max_currents(c, entered, dt, ocv, hys, rint, Q),
                         fp)
            EXCEPT !.depends = @ \cup eq.depends]

\* The whole of update for one call, fp being the way the floating-point
\* comparisons fall.
Battery_update(c, st, power_setpoint, dt, fp) ==
    LET entered == [st EXCEPT !.is_charge = (power_setpoint > 0)]
    IN  update_solve(c, entered, power_setpoint, dt,
                     open_circuit_voltage(entered),
                     hystheresis_voltage(entered),
                     internal_resistance(entered),
                     capacity(entered),
                     equilibrium_current(power_setpoint,
                                         open_circuit_voltage(entered),
                                         hystheresis_voltage(entered),
                                         internal_resistance(entered),
                                         fp),
                     fp)

(* ------------------------------------------------------------------ *)
(* HalfCycleDetector (cycle_detector.py)                              *)
(*                                                                    *)
(* soc samples, _start_soc, _prev_soc and depth_of_discharge are on   *)
(* the soc grid; _soc_sum, mean_soc, full_equivalent_cycles and       *)
(* total_fec are on the grid of half soc steps (1/HalfScale), on      *)
(* which the midpoint (prev + soc) / 2 and dod / 2 are exact; c_rate  *)
(* is in 1/CRateScale per hour.                                       *)
(* ------------------------------------------------------------------ *)
HalfScale == 2 * SocScale
CRateScale == 1000

\* last_cycle: HalfCycle | None
NoCycle == [depth_of_discharge |-> None, mean_soc |-> None,
            c_rate |-> None, full_equivalent_cycles |-> None]

HalfCycleDetector_init(initial_soc) ==
    [start_soc |-> initial_soc, prev_soc |-> initial_soc, direction |-> 0,
     elapsed_time |-> 0, soc_sum |-> 0, soc_samples |-> 0,
     total_fec |-> 0, last_cycle |-> NoCycle]

\* variant: the end of the interval taken for its midpoint
midpoint_end(prev_soc, soc) == MulDiv(soc, HalfScale, SocScale)

\* (self._prev_soc + soc) / 2 on the half-step grid
midpoint(prev_soc, soc) == MulDiv(prev_soc + soc, HalfScale, 2 * SocScale)

\* variant: fec = dod
half_dod_whole(dod) == MulDiv(dod, HalfScale, SocScale)

\* fec = dod / 2.0 on the half-step grid
half_dod(dod) == MulDiv(dod, HalfScale, 2 * SocScale)

make_half_cycle(d) ==
    LET dod == Abs(d.prev_soc - d.start_soc)
        mean_soc == IF d.soc_samples > 0
                    THEN DivRound(d.soc_sum, d.soc_samples)
                    ELSE d.start_soc * (HalfScale \div SocScale)
        \* dod / (elapsed_time / 3600):
        \* (dod / SocScale) * SecondsPerHour / elapsed_time * CRateScale
        c_rate == IF d.elapsed_time > 0
                  THEN MulDiv(dod, CRateScale, SocPerSecond * d.elapsed_time)
                  ELSE 0
    IN  [depth_of_discharge |-> dod, mean_soc |-> mean_soc,
         c_rate |-> c_rate, full_equivalent_cycles |-> half_dod(dod)]

\* variant: every movement taken for a charge movement
new_direction_up(delta) == 1

\* 1 if delta > 0 else -1
new_direction(delta) == IF delta > 0 THEN 1 ELSE 0 - 1

\* variant: a rest sample counted toward the elapsed time
rest_sample_counts_time(d, dt) == [d EXCEPT !.elapsed_time = d.elapsed_time + dt]

\* delta == 0.0: return False, nothing is assigned
rest_sample(d, dt) == d

\* variant: the previous sample is not moved along with the soc
accumulate_keeps_prev(d, soc, dt) ==
    [d EXCEPT !.elapsed_time = d.elapsed_time + dt,
              !.soc_sum = d.soc_sum + midpoint(d.prev_soc, soc),
              !.soc_samples = d.soc_samples + 1]

\* self._elapsed_time += dt; self._soc_sum += (self._prev_soc + soc) / 2;
\* self._soc_samples += 1; self._prev_soc = soc
accumulate(d, soc, dt) ==
    [d EXCEPT !.elapsed_time = d.elapsed_time + dt,
              !.soc_sum = d.soc_sum + midpoint(d.prev_soc, soc),
              !.soc_samples = d.soc_samples + 1,
              !.prev_soc = soc]

\* variant: the new half-cycle starts at the reversing sample
start_new_half_cycle_at_sample(d, nd, soc, dt) ==
    [d EXCEPT !.start_soc = soc,
              !.direction = nd,
              !.elapsed_time = dt,
              !.soc_sum = midpoint(d.prev_soc, soc),
              !.soc_samples = 1,
              !.prev_soc = soc]

\* variant: the new half-cycle starts with empty accumulators
start_new_half_cycle_unseeded(d, nd, soc, dt) ==
    [d EXCEPT !.start_soc = d.prev_soc,
              !.direction = nd,
              !.elapsed_time = 0,
              !.soc_sum = 0,
              !.soc_samples = 0,
              !.prev_soc = soc]

\* variant: the direction is forgotten on a reversal
start_new_half_cycle_undirected(d, nd, soc, dt) ==
    [d EXCEPT !.start_soc = d.prev_soc,
              !.direction = 0,
              !.elapsed_time = dt,
              !.soc_sum = midpoint(d.prev_soc, soc),
              !.soc_samples = 1,
              !.prev_soc = soc]

\* "Start new half-cycle from prev_soc": the assignments that follow the
\* finalization on a reversal
start_new_half_cycle(d, nd, soc, dt) ==
    [d EXCEPT !.start_soc = d.prev_soc,
              !.direction = nd,
              !.elapsed_time = dt,
              !.soc_sum = midpoint(d.prev_soc, soc),
              !.soc_samples = 1,
              !.prev_soc = soc]

HalfCycleDetector_update(d, soc, dt) ==
    LET delta == soc - d.prev_soc
        nd    == new_direction(delta)
        cycle == make_half_cycle(d)
    IN  IF delta = 0
        THEN [ret |-> FALSE, det |-> rest_sample(d, dt)]
        ELSE IF d.direction = 0
        THEN [ret |-> FALSE,
              det |-> accumulate([d EXCEPT !.direction = nd], soc, dt)]
        ELSE IF nd = d.direction
        THEN [ret |-> FALSE, det |-> accumulate(d, soc, dt)]
        ELSE [ret |-> TRUE,
              det |-> start_new_half_cycle(
                         [d EXCEPT !.last_cycle = cycle,
                                   !.total_fec = d.total_fec
                                                   + cycle.full_equivalent_cycles],
                         nd, soc, dt)]

(* ------------------------------------------------------------------ *)
(* DegradationModel (degradation.py) and its strategies               *)
(*                                                                    *)
(* A strategy is the no-op strategy of degradation.py or a strategy   *)
(* returning fixed deltas and counting its calls (the MockCalendar    *)
(* and MockCyclic of tests/test_degradation.py); deltas are on the    *)
(* soh grid.  Every update returns, next to the objects it changed,   *)
(* the calls it made on its collaborators in order, each with the     *)
(* BatteryState the callee was handed.                                *)
(* ------------------------------------------------------------------ *)
NoOpStrategy == [kind |-> "noop", dq |-> 0, dr |-> 0, call_count |-> 0]

MockCalendar(dq, dr) == [kind |-> "mock", dq |-> dq, dr |-> dr, call_count |-> 0]

MockCyclic(dq, dr) == [kind |-> "mock", dq |-> dq, dr |-> dr, call_count |-> 0]

\* _NoOpCalendar.update: return 0.0, 0.0
NoOpCalendar_update(s, st, dt) == [strategy |-> s, dq |-> 0, dr |-> 0]

\* variant: a cyclic no-op strategy that ages the cell
NoOpCyclic_update_ages(s, st, half_cycle) ==
    [strategy |-> s, dq |-> 0 - 1, dr |-> 1]

\* _NoOpCyclic.update: return 0.0, 0.0
NoOpCyclic_update(s, st, half_cycle) == [strategy |-> s, dq |-> 0, dr |-> 0]

\* MockCalendar.update: self.call_count += 1; return self.dq, self.dr
MockCalendar_update(s, st, dt) ==
    [strategy |-> [s EXCEPT !.call_count = s.call_count + 1],
     dq |-> s.dq, dr |-> s.dr]

\* MockCyclic.update: self.call_count += 1; return self.dq, self.dr
MockCyclic_update(s, st, half_cycle) ==
    [strategy |-> [s EXCEPT !.call_count = s.call_count + 1],
     dq |-> s.dq, dr |-> s.dr]

\* self.calendar.update(state, dt), dispatched on the strategy object
calendar_update(s, st, dt) ==
    IF s.kind = "noop" THEN NoOpCalendar_update(s, st, dt)
                       ELSE MockCalendar_update(s, st, dt)

\* self.cyclic.update(state, half_cycle), dispatched on the strategy object
cyclic_update(s, st, half_cycle) ==
    IF s.kind = "noop" THEN NoOpCyclic_update(s, st, half_cycle)
                       ELSE MockCyclic_update(s, st, half_cycle)

DegradationModel_init(calendar, cyclic, initial_soc) ==
    [calendar |-> calendar, cyclic |-> cyclic,
     cycle_detector |-> HalfCycleDetector_init(initial_soc)]

calendar_only(calendar, initial_soc) ==
    DegradationModel_init(calendar, NoOpStrategy, initial_soc)

cyclic_only(cyclic, initial_soc) ==
    DegradationModel_init(NoOpStrategy, cyclic, initial_soc)

\* variant: the degradation model also writes the temperature
add_deltas_heats(st, dq, dr) ==
    [st EXCEPT !.soh_Q = st.soh_Q + dq, !.soh_R = st.soh_R + dr, !.T = st.T + 1]

\* state.soh_Q += dq; state.soh_R += dr
add_deltas(st, dq, dr) ==
    [st EXCEPT !.soh_Q = st.soh_Q + dq, !.soh_R = st.soh_R + dr]

\* one entry of the call log
CallEntry(op, st, dt, half_cycle) ==
    [op |-> op, state |-> st, dt |-> dt, half_cycle |-> half_cycle]

\* variant: the calendar strategy skipped while the soc rests
DegradationModel_update_skips_rest(m, st, dt) ==
    LET moved == st.soc # m.cycle_detector.prev_soc
        cal == IF moved THEN calendar_update(m.calendar, st, dt)
                        ELSE [strategy |-> m.calendar, dq |-> 0, dr |-> 0]
        st1 == add_deltas(st, cal.dq, cal.dr)
        d   == HalfCycleDetector_update(m.cycle_detector, st1.soc, dt)
        cyc == cyclic_update(m.cyclic, st1, d.det.last_cycle)
    IN  [model |-> [calendar |-> cal.strategy,
                    cyclic |-> IF d.ret THEN cyc.strategy ELSE m.cyclic,
                    cycle_detector |-> d.det],
         state |-> IF d.ret THEN add_deltas(st1, cyc.dq, cyc.dr) ELSE st1,
         ret   |-> d.ret,
         calls |-> (IF moved THEN <<CallEntry("calendar.update", st, dt, NoCycle)>>
                             ELSE <<>>)
                   \o <<CallEntry("cycle_detector.update", st1, dt, NoCycle)>>
                   \o (IF d.ret
                       THEN <<CallEntry("cyclic.update", st1, None, d.det.last_cycle)>>
                       ELSE <<>>)]

\* variant: the cyclic strategy run on every call
DegradationModel_update_cyclic_always(m, st, dt) ==
    LET cal == calendar_update(m.calendar, st, dt)
        st1 == add_deltas(st, cal.dq, cal.dr)
        d   == HalfCycleDetector_update(m.cycle_detector, st1.soc, dt)
        cyc == cyclic_update(m.cyclic, st1, d.det.last_cycle)
    IN  [model |-> [calendar |-> cal.strategy,
                    cyclic |-> cyc.strategy,
                    cycle_detector |-> d.det],
         state |-> add_deltas(st1, cyc.dq, cyc.dr),
         ret   |-> d.ret,
         calls |-> <<CallEntry("calendar.update", st, dt, NoCycle),
                     CallEntry("cycle_detector.update", st1, dt, NoCycle),
                     CallEntry("cyclic.update", st1, None, d.det.last_cycle)>>]

\* DegradationModel.update(state, dt)
DegradationModel_update(m, st, dt) ==
    LET cal == calendar_update(m.calendar, st, dt)
        st1 == add_deltas(st, cal.dq, cal.dr)
        d   == HalfCycleDetector_update(m.cycle_detector, st1.soc, dt)
        cyc == cyclic_update(m.cyclic, st1, d.det.last_cycle)
    IN  [model |-> [calendar |-> cal.strategy,
                    cyclic |-> IF d.ret THEN cyc.strategy ELSE m.cyclic,
                    cycle_detector |-> d.det],
         state |-> IF d.ret THEN add_deltas(st1, cyc.dq, cyc.dr) ELSE st1,
         ret   |-> d.ret,
         calls |-> <<CallEntry("calendar.update", st, dt, NoCycle),
                     CallEntry("cycle_detector.update", st1, dt, NoCycle)>>
                   \o (IF d.ret
                       THEN <<CallEntry("cyclic.update", st1, None, d.det.last_cycle)>>
                       ELSE <<>>)]

\* the end of Battery.update(power_setpoint, dt) of a battery whose
\* degradation is m, r being the outcome of the electrical update:
\* self.degradation.update(self.state, dt); an exception of the electrical
\* update leaves the method before that call
degradation_step(r, m, dt) ==
    IF r.raised
    THEN [raised |-> TRUE, state |-> r.state, model |-> m,
          ret |-> FALSE, calls |-> <<>>]
    ELSE [raised |-> FALSE] @@ DegradationModel_update(m, r.state, dt)

(* ------------------------------------------------------------------ *)
(* SonyLFPCalendarDegradation and SonyLFPCyclicDegradation            *)
(* (model/degradation/sony_lfp_calendar.py, sony_lfp_cyclic.py)       *)
(*                                                                    *)
(* Capacity loss (accumulated and per call) is in 1/QlossScale p.u.,  *)
(* resistance increase in 1/(RincFine * QlossScale) p.u.  The factors *)
(* of the stress keep the digits of the source's coefficients:        *)
(* k_soc, k_dod and k_crate_q are in 1e-7, k_crate_r in 1e-6, the     *)
(* Arrhenius factor in 1/ArrheniusScale; the calendar stress is in    *)
(* 1e-12 per sqrt(s), the cyclic stress (the source's value over its  *)
(* 100.0, percent) in 1e-10 per sqrt(FEC).                            *)
(*                                                                    *)
(* The square-root law is evaluated without the virtual time itself:  *)
(* with virtual = stress * sqrt(virtual_time), which is the           *)
(* accumulated loss,                                                  *)
(*    new_total = stress * sqrt(virtual_time + dt)                    *)
(*              = sqrt(virtual^2 + stress^2 * dt)                     *)
(*    new_total - virtual = stress^2 * dt / (new_total + virtual)     *)
(* so the delta of a call is a quotient and keeps its digits where    *)
(* the difference of two nearly equal roots, taken on a grid, would   *)
(* lose them.                                                         *)
(* ------------------------------------------------------------------ *)
QlossScale == 1000000000
RincFine == 100
ArrheniusScale == 100000000

T_REF == 2981500

K_REF_QLOSS == 12571
CAL_C_QLOSS == 28575
CAL_D_QLOSS == 6022500

K_REF_RINC == 34194
CAL_C_RINC == -33903
CAL_D_RINC == 15604000

A_QLOSS == 630
B_QLOSS == 971000
CYC_C_QLOSS == 40253
CYC_D_QLOSS == 10923000

A_RINC == -2
B_RINC == 2100
CYC_C_RINC == 68477
CYC_D_RINC == 9182000

\* math.exp(-EA_QLOSS / R * (1.0 / T - 1.0 / T_REF)) in 1/ArrheniusScale, for
\* 278.15 K, 288.15 K, 298.15 K, 308.15 K and 318.15 K
exp_qloss(T) ==
    CASE T = 2781500 -> 60850499
      [] T = 2881500 -> 78682026
      [] T = T_REF -> ArrheniusScale
      [] T = 3081500 -> 125131435
      [] T = 3181500 -> 154387475

\* math.exp(-EA_RINC / R * (1.0 / T - 1.0 / T_REF)) in 1/ArrheniusScale
exp_rinc(T) ==
    CASE T = 2781500 -> 12450787
      [] T = 2881500 -> 36584626
      [] T = T_REF -> ArrheniusScale
      [] T = 3081500 -> 256069557
      [] T = 3181500 -> 618080610

\* the steps of the soc grid in a thousandth
SocPerMille == SocScale \div 1000

\* x ** 2 and x ** 3 of a difference x of soc, in 1e-9
square(x) == MulDiv(MulDiv(x, x, SocPerMille), 1000, SocPerMille)

cube(x) == MulDiv(MulDiv(x, x, SocPerMille), x, SocPerMille * SocPerMille)

\* self._accumulated_qloss = 0.0; self._accumulated_rinc = 0.0
SonyLFP_init == [accumulated_qloss |-> 0, accumulated_rinc |-> 0]

\* k_T_q * k_soc_q, in 1e-12 per sqrt(s)
calendar_stress_q(T, soc) ==
    LET k_T_q   == MulDiv(K_REF_QLOSS, exp_qloss(T), 100000)
        k_soc_q == MulDiv(CAL_C_QLOSS, cube(soc - SocScale \div 2), 1000000)
                      + CAL_D_QLOSS
    IN  MulDiv(k_T_q, k_soc_q, 10000000)

\* k_T_r * k_soc_r, in 1e-17 per second
calendar_rate_r(T, soc) ==
    LET k_T_r   == MulDiv(K_REF_RINC, exp_rinc(T), 100000)
        k_soc_r == MulDiv(CAL_C_RINC, square(soc - SocScale \div 2), 1000000)
                      + CAL_D_RINC
    IN  MulDiv(k_T_r, k_soc_r, 10000000)

\* the integer root of a radicand is taken on at most this many units
RootDigits == 30000

\* a divisor beyond the reach of MulDiv is taken in steps of this many units
DivisorStep == 8

\* math.sqrt(virtual ** 2 + square * increment): the radicand X is taken in
\* squares of k units, exactly up to the rounding of its two quotients, and
\* its integer root r is carried one step of Newton's iteration further
root_of_sum(virtual, square_stress, increment) ==
    LET unit == 1 + (virtual + (Sqrt(square_stress) + 1) * (Sqrt(increment) + 1))
                       \div RootDigits
        radicand(k) ==
            LET vk == virtual \div k
            IN  vk * vk + MulDiv(virtual + vk * k, virtual % k, k * k)
                   + MulDiv(square_stress, increment, k * k)
        root(k, X, r) ==
            IF r = 0 THEN 0 ELSE k * r + MulDiv(k, X - r * r, 2 * r)
    IN  Only({Only({Only({root(k, X, r) : r \in {SqrtSearch(X, 0, 46340)}})
                    : X \in {radicand(k)}})
              : k \in {unit}})

\* variant: every call starts the square-root law at zero
virtual_loss_fresh(accumulated, stress) == 0

\* stress * sqrt(virtual_time) for virtual_time = (accumulated / stress) ** 2
\* (for virtual_fec = (accumulated * 100.0 / stress) ** 2): the loss that the
\* virtual time (virtual FEC) stands for under the present stress, which is
\* the accumulated loss whatever the stress
virtual_loss(accumulated, stress) == accumulated

\* stress * math.sqrt(virtual_time + increment), from the loss the virtual
\* time stands for and the square of the stress per unit of the increment
new_total(virtual, square_stress, increment) ==
    root_of_sum(virtual, square_stress, increment)

\* new_total - accumulated, as
\* (virtual - accumulated) + square * increment / (new_total + virtual)
loss_delta(accumulated, virtual, square_stress, increment) ==
    LET D == new_total(virtual, square_stress, increment) + virtual
        g == IF D = 0 THEN 0
             ELSE IF D <= MaxInt \div 31
             THEN MulDiv(square_stress, increment, D)
             ELSE DivRound(MulDiv(square_stress, increment,
                                  DivRound(D, DivisorStep)),
                           DivisorStep)
    IN  (virtual - accumulated) + g

\* variant: the capacity delta returned with the sign of the loss
calendar_return_unsigned(delta_q, delta_r) == [dq |-> delta_q, dr |-> delta_r]

\* return -delta_q, delta_r
calendar_return(delta_q, delta_r) == [dq |-> 0 - delta_q, dr |-> delta_r]

\* variant: accumulators advanced on a zero timestep
calendar_zero_dt_accumulates(m) ==
    [model |-> [m EXCEPT !.accumulated_rinc = m.accumulated_rinc + 1],
     dq |-> 0, dr |-> 0]

\* if dt == 0.0: return 0.0, 0.0
calendar_zero_dt(m) == [model |-> m, dq |-> 0, dr |-> 0]

\* SonyLFPCalendarDegradation.update(state, dt)
SonyLFPCalendar_update(m, st, dt) ==
    IF dt = 0 THEN calendar_zero_dt(m)
    ELSE
    LET stress_q == calendar_stress_q(st.T, st.soc)
        \* stress_q ** 2 in squares of 1/QlossScale per second
        delta_q  == IF stress_q > 0
                    THEN loss_delta(m.accumulated_qloss,
                                    virtual_loss(m.accumulated_qloss, stress_q),
                                    MulDiv(stress_q, stress_q, 1000000), dt)
                    ELSE 0
        delta_r  == MulDiv(calendar_rate_r(st.T, st.soc), dt, 1000000)
        ret      == calendar_return(delta_q, delta_r)
    IN  [model |-> [accumulated_qloss |-> m.accumulated_qloss + delta_q,
                    accumulated_rinc  |-> m.accumulated_rinc + delta_r],
         dq |-> ret.dq, dr |-> ret.dr]

\* k_crate_q * k_dod_q / 100.0, in 1e-10 per sqrt(FEC)
cyclic_stress_q(half_cycle) ==
    LET k_crate_q == A_QLOSS * half_cycle.c_rate + B_QLOSS
        k_dod_q   == MulDiv(CYC_C_QLOSS,
                            cube(half_cycle.depth_of_discharge - 6 * (SocScale \div 10)),
                            1000000)
                        + CYC_D_QLOSS
    IN  MulDiv(k_crate_q, k_dod_q, 1000000)

\* k_crate_r * k_dod_r / 100.0, in 1e-11 per FEC
cyclic_stress_r(half_cycle) ==
    LET k_crate_r == A_RINC * half_cycle.c_rate + B_RINC
        k_dod_r   == MulDiv(CYC_C_RINC,
                            cube(half_cycle.depth_of_discharge - SocScale \div 2),
                            1000000)
                        + CYC_D_RINC
    IN  MulDiv(k_crate_r, k_dod_r, 10000)

\* SonyLFPCyclicDegradation.update(state, half_cycle)
SonyLFPCyclic_update(m, st, half_cycle) ==
    LET delta_fec == half_cycle.full_equivalent_cycles
    IN  IF delta_fec = 0 THEN [model |-> m, dq |-> 0, dr |-> 0]
        ELSE
        LET stress_q == cyclic_stress_q(half_cycle)
            \* stress_q ** 2 in squares of 1/QlossScale per 1/HalfScale FEC
            delta_q  == IF stress_q > 0
                        THEN loss_delta(m.accumulated_qloss,
                                        virtual_loss(m.accumulated_qloss, stress_q),
                                        MulDiv(stress_q, stress_q, 100 * HalfScale),
                                        delta_fec)
                        ELSE 0
            delta_r  == MulDiv(cyclic_stress_r(half_cycle), delta_fec, HalfScale)
        IN  [model |-> [accumulated_qloss |-> m.accumulated_qloss + delta_q,
                        accumulated_rinc  |-> m.accumulated_rinc + delta_r],
             dq |-> 0 - delta_q, dr |-> delta_r]

(* ------------------------------------------------------------------ *)
(* thermal properties of the battery (battery.py) and the room        *)
(* thermal model (thermal/thermal.py)                                 *)
(*                                                                    *)
(* Lengths are in mm, the thermal capacity in J/K, the thermal        *)
(* resistance in 1/ThermalOhmScale K/W.                               *)
(* ------------------------------------------------------------------ *)
ThermalOhmScale == 1000

\* ThermalCellProperties and PrismaticCell of the tests' SimpleCell
mass == 1
specific_heat == 1000
convection_coefficient == 10
height == 100
width == 30
length == 150

\* PrismaticCell.volume: h * w * l, mm^3
cell_volume == height * width * length

\* cell.thermal.specific_heat * cell.thermal.mass * serial * parallel
thermal_capacity == specific_heat * mass * serial * parallel

\* cell.format.volume * serial * parallel, mm^3
volume == cell_volume * serial * parallel

\* 2 * volume / height, mm^2
area == (2 * volume) \div height

\* 1 / (convection_coefficient * area), with the area in mm^2 = 10^-6 m^2
thermal_resistance ==
    DivRound(ThermalOhmScale * 1000000, convection_coefficient * area)

\* RoomThermalModel(T_ambient, components)
RoomThermalModel_init(T_ambient, components) ==
    [T_ambient |-> T_ambient, components |-> components]

\* self._components.append(component)
RoomThermalModel_add_component(m, component) ==
    [m EXCEPT !.components = Append(m.components, component)]

\* one pass of the loop body for a battery:
\* dT_dt = Q_loss / C_th + (T_amb - T) / (R_th * C_th); state.T = T + dT_dt * dt
thermal_node(T_amb, st, dt) ==
    LET T      == st.T
        C_th   == thermal_capacity
        R_th   == thermal_resistance
        Q_loss == st.loss
    IN  [st EXCEPT !.T = T + MulDiv(Q_loss, dt * TempScale, LossScale * C_th)
                           + MulDiv(T_amb - T, dt * ThermalOhmScale, R_th * C_th)]

RECURSIVE RoomThermalModel_update(_, _, _, _)
\* RoomThermalModel.update(dt): the loop over the first k registered
\* components, st being the state of the battery
RoomThermalModel_update(m, k, st, dt) ==
    IF k = 0 THEN st
    ELSE LET before == RoomThermalModel_update(m, k - 1, st, dt)
         IN  IF m.components[k] = "battery"
             THEN thermal_node(m.T_ambient, before, dt)
             ELSE before

(* ------------------------------------------------------------------ *)
(* state                                                              *)
(* ------------------------------------------------------------------ *)
VARIABLES
    config,     \* the battery's construction arguments (derating, soc_limits)
    built,      \* Battery(...) has returned a battery (it has not raised)
    state,      \* Battery.state, the BatteryState record
    raised,     \* the last update call raised
    pre,        \* Battery.state at entry of the last update call
    call,       \* the arguments of the last update call
    twin,       \* state committed by the same call on a battery without derating
    steps,      \* number of update calls made (battery and thermal model)
    last,       \* the operation called last
    room,       \* the RoomThermalModel the battery is registered with
    det,        \* the HalfCycleDetector
    det_pre,    \* the detector at entry of its last update call
    det_call,   \* the arguments of the last detector update call
    det_ret,    \* the value the last detector update call returned
    finalized,  \* the half-cycles finalized so far, oldest first
    samples,    \* number of detector update calls made
    trace,      \* initial_soc and the (soc, dt) of every detector update call
    degradation,\* the DegradationModel attached to the battery
    deg_pre,    \* the DegradationModel at entry of the last Battery.update
    calls,      \* the calls DegradationModel.update made in the last Battery.update
    fed,        \* initial_soc and the soc of every DegradationModel.update so far
    aging,      \* a Sony LFP degradation model and the change of soh it has made
    aging_pre,  \* aging at entry of the last update call of the model
    aging_ret,  \* the deltas the last update call of the model returned
    history     \* the update calls made on the model, oldest first

battery_vars == <<config, built, state, raised, pre, call, twin, steps, last, room>>

detector_vars == <<det, det_pre, det_call, det_ret, finalized, samples, trace>>

degradation_vars == <<degradation, deg_pre, calls, fed>>

aging_vars == <<aging, aging_pre, aging_ret, history>>

vars == <<config, built, state, raised, pre, call, twin, steps, last, room,
          det, det_pre, det_call, det_ret, finalized, samples, trace,
          degradation, deg_pre, calls, fed,
          aging, aging_pre, aging_ret, history>>

(* ------------------------------------------------------------------ *)
(* inputs                                                             *)
(* ------------------------------------------------------------------ *)
\* soc_limits (p.u. on the soc grid): the default (0, 1) and (0.1, 0.9)
SocLimitChoices == {<<0, SocScale>>, <<SocScale \div 10, 9 * (SocScale \div 10)>>}

\* start_soc: 0.01, 0.25, 0.3, 0.5, 0.95, and two values near 1/6 and
\* 5/6 at which the terminal voltage of a current of 1 A is a fraction of a
\* millivolt past the derate-start voltage, so that derating reduces the
\* current by less than a step of the current grid.  From 0.3 the soc
\* candidate carries the soc to the upper bound 0.9 of the window in an hour;
\* at 0.25 the radicand of the closed form is zero for -2722.5 W.
StartSocs == {SocScale \div 100, SocScale \div 4, 3 * (SocScale \div 10),
              SocScale \div 2, 95 * (SocScale \div 100),
              SocScale \div 6 + 85, 5 * (SocScale \div 6) - 85}

\* start_soh_Q, start_soh_R: a new battery (the defaults 1.0, 1.0) at every
\* start_soc, and at 0.3 and 0.95 also an aged one (0.8 of the capacity, 1.5
\* times the resistance): from 0.3 the soc candidate of the aged capacity
\* binds a charge of an hour, at 0.95 the voltage candidate of the aged
\* resistance binds a charge
AgedStartSocs == {3 * (SocScale \div 10), 95 * (SocScale \div 100)}

StartSohs(start_soc) ==
    IF start_soc \in AgedStartSocs
    THEN {<<SohScale, SohScale>>, <<8 * (SohScale \div 10), 15 * (SohScale \div 10)>>}
    ELSE {<<SohScale, SohScale>>}

\* charge / discharge derate-start voltage of the cell (tests: 4.0 V, 3.2 V)
ChargeDerateChoices == {None, 4 * VoltScale}

DischargeDerateChoices == {None, 32 * (VoltScale \div 10)}

\* the cell and the soc window of a battery: every choice of the derate-start
\* voltages with the full window, no derating with the narrow one
Configurations ==
    {c \in [charge_derate : ChargeDerateChoices,
            discharge_derate : DischargeDerateChoices,
            soc_limits : SocLimitChoices] :
        \/ c.soc_limits = <<0, SocScale>>
        \/ (c.charge_derate = None /\ c.discharge_derate = None)}

\* power_setpoint: rest; 4 W, 300 W, 1 MW of charge (about 1 A, moderate,
\* far beyond the limits); 3.2 W and 2 kW of discharge (about 1 A, beyond the
\* limits), 2722.5 W (the radicand of the closed form is zero at soc 0.25)
\* and 100 kW (the radicand is negative at every soc)
PowerSetpoints == {0, 4 * PowerScale, 300 * PowerScale, 1000000 * PowerScale,
                   0 - 32 * (PowerScale \div 10), 0 - 2000 * PowerScale,
                   0 - 27225 * (PowerScale \div 10), 0 - 100000 * PowerScale}

\* dt, s
Timesteps == {60, 3600}

\* soc samples fed to a stand-alone detector
SampleSocs == {0, SocScale \div 4, SocScale \div 2, 3 * (SocScale \div 4) + SocPerSecond,
               SocScale}

\* T_ambient of the room: 10 K above the start temperature of the battery
AmbientTemperatures == {start_T + 10 * TempScale}

\* components=[battery] when there is a battery, components=None otherwise
registered(battery_built) == IF battery_built THEN <<"battery">> ELSE <<>>

without_derating(c) == [c EXCEPT !.charge_derate = None, !.discharge_derate = None]

(* ------------------------------------------------------------------ *)
(* specification of the battery without degradation model             *)
(* ------------------------------------------------------------------ *)
NoCall == [power_setpoint |-> 0, dt |-> 0, rounding |-> Nearest]

\* update(power_setpoint, dt) under the rounding fp, nearest being the
\* outcome under Nearest
rounded(nearest, c, st, power_setpoint, dt, fp) ==
    IF fp = Nearest THEN nearest
    ELSE Battery_update(c, st, power_setpoint, dt, fp)

DetectorIdle ==
    /\ det = HalfCycleDetector_init(0)
    /\ det_pre = det
    /\ det_call = [soc |-> 0, dt |-> 0]
    /\ det_ret = FALSE
    /\ finalized = <<>>
    /\ samples = 0
    /\ trace = <<>>

\* degradation=None
DegradationIdle ==
    /\ degradation = DegradationModel_init(NoOpStrategy, NoOpStrategy, 0)
    /\ deg_pre = degradation
    /\ calls = <<>>
    /\ fed = <<>>

\* no Sony LFP model under test
AgingIdle ==
    /\ aging = [kind |-> "none", model |-> SonyLFP_init, d_soh_Q |-> 0, d_soh_R |-> 0]
    /\ aging_pre = aging
    /\ aging_ret = [dq |-> 0, dr |-> 0]
    /\ history = <<>>

Init ==
    /\ config \in Configurations
    /\ \E s \in StartSocs, slots \in BatteryState_versions :
       \E soh \in StartSohs(s) :
          /\ state = initialize_state(slots, s, soh[1], soh[2]).state
          /\ built = ~initialize_state(slots, s, soh[1], soh[2]).raised
    /\ raised = FALSE
    /\ pre = state
    /\ call = NoCall
    /\ twin = state
    /\ steps = 0
    /\ last = "init"
    /\ \E T_ambient \in AmbientTemperatures :
          room = RoomThermalModel_init(T_ambient, registered(built))
    /\ DetectorIdle
    /\ DegradationIdle
    /\ AgingIdle

Update(power_setpoint, dt) ==
    /\ built
    /\ steps < MaxSteps
    /\ \E r0 \in {Battery_update(config, state, power_setpoint, dt, Nearest)} :
       \E t0 \in {IF has_linear_derating(config)
                  THEN Battery_update(without_derating(config), state,
                                      power_setpoint, dt, Nearest)
                  ELSE r0} :
       \E fp \in RoundingsOf(r0.depends \cup t0.depends) :
       LET r == rounded(r0, config, state, power_setpoint, dt, fp)
           t == rounded(t0, without_derating(config), state, power_setpoint, dt, fp)
       IN  /\ state' = r.state
           /\ raised' = r.raised
           /\ twin' = t.state
           /\ call' = [power_setpoint |-> power_setpoint, dt |-> dt,
                       rounding |-> fp]
    /\ pre' = state
    /\ steps' = steps + 1
    /\ last' = "Battery.update"
    /\ UNCHANGED <<config, built, room>>
    /\ UNCHANGED detector_vars
    /\ UNCHANGED degradation_vars
    /\ UNCHANGED aging_vars

\* RoomThermalModel.update(dt); what is recorded of the last Battery.update
\* call is forgotten
ThermalUpdate(dt) ==
    /\ steps < MaxSteps
    /\ state' = RoomThermalModel_update(room, Len(room.components), state, dt)
    /\ raised' = FALSE
    /\ pre' = state'
    /\ call' = NoCall
    /\ twin' = state'
    /\ steps' = steps + 1
    /\ last' = "RoomThermalModel.update"
    /\ UNCHANGED <<config, built, room>>
    /\ UNCHANGED detector_vars
    /\ UNCHANGED degradation_vars
    /\ UNCHANGED aging_vars

\* RoomThermalModel.add_component(battery): the battery is registered (once
\* more); what is recorded of the last Battery.update call is forgotten
AddComponent ==
    /\ built
    /\ steps < MaxSteps
    /\ room' = RoomThermalModel_add_component(room, "battery")
    /\ raised' = FALSE
    /\ pre' = state
    /\ call' = NoCall
    /\ twin' = state
    /\ steps' = steps + 1
    /\ last' = "RoomThermalModel.add_component"
    /\ UNCHANGED <<config, built, state>>
    /\ UNCHANGED detector_vars
    /\ UNCHANGED degradation_vars
    /\ UNCHANGED aging_vars

Next ==
    \/ \E p \in PowerSetpoints, dt \in Timesteps : Update(p, dt)
    \/ \E dt \in Timesteps : ThermalUpdate(dt)
    \/ AddComponent

Spec == Init /\ [][Next]_vars

(* ------------------------------------------------------------------ *)
(* specification of a stand-alone half-cycle detector                 *)
(* ------------------------------------------------------------------ *)
\* no battery is built
BatteryIdle ==
    /\ config = [charge_derate |-> None, discharge_derate |-> None,
                 soc_limits |-> <<0, SocScale>>]
    /\ built = FALSE
    /\ state = NoState
    /\ raised = FALSE
    /\ pre = state
    /\ call = NoCall
    /\ twin = state
    /\ steps = 0
    /\ last = "init"
    /\ room = RoomThermalModel_init(start_T, <<>>)

DetectorInit ==
    /\ BatteryIdle
    /\ \E s \in SampleSocs :
          /\ det = HalfCycleDetector_init(s)
          /\ trace = <<[soc |-> s, dt |-> 0]>>
    /\ det_pre = det
    /\ det_call = [soc |-> 0, dt |-> 0]
    /\ det_ret = FALSE
    /\ finalized = <<>>
    /\ samples = 0
    /\ DegradationIdle
    /\ AgingIdle

DetectorUpdate(soc, dt) ==
    /\ samples < MaxSamples
    /\ LET r == HalfCycleDetector_update(det, soc, dt)
       IN  /\ det' = r.det
           /\ det_ret' = r.ret
           /\ finalized' = IF r.ret THEN Append(finalized, r.det.last_cycle)
                                    ELSE finalized
    /\ det_pre' = det
    /\ det_call' = [soc |-> soc, dt |-> dt]
    /\ samples' = samples + 1
    /\ trace' = Append(trace, [soc |-> soc, dt |-> dt])
    /\ UNCHANGED battery_vars
    /\ UNCHANGED degradation_vars
    /\ UNCHANGED aging_vars

DetectorNext == \E s \in SampleSocs, dt \in Timesteps : DetectorUpdate(s, dt)

DetectorSpec == DetectorInit /\ [][DetectorNext]_vars

(* ------------------------------------------------------------------ *)
(* specification of a battery with a degradation model attached       *)
(* ------------------------------------------------------------------ *)
\* the three compositions of the tests, with deltas of 0.001 per calendar
\* call and 0.01 per half-cycle
Compositions(initial_soc) ==
    {DegradationModel_init(MockCalendar(0 - 1, 1), MockCyclic(0 - 10, 10), initial_soc),
     calendar_only(MockCalendar(0 - 1, 1), initial_soc),
     cyclic_only(MockCyclic(0 - 10, 10), initial_soc)}

\* start_soc of the battery and initial_soc of its degradation model
DegradationStartSocs == {SocScale \div 2, 9 * (SocScale \div 10)}

\* power_setpoint: rest, a charge (10 kW) and a discharge (2 kW) beyond the
\* limits, a discharge (4161.6 W) for which the radicand of the closed form
\* is zero at soc 0.9, and a discharge (100 kW) the cell cannot deliver at
\* any current
DegradationSetpoints == {0, 10000 * PowerScale, 0 - 2000 * PowerScale,
                         0 - 41616 * (PowerScale \div 10),
                         0 - 100000 * PowerScale}

DegradationInit ==
    /\ config = [charge_derate |-> None, discharge_derate |-> None,
                 soc_limits |-> <<0, SocScale>>]
    /\ \E s \in DegradationStartSocs, slots \in BatteryState_versions :
          /\ state = initialize_state(slots, s, SohScale, SohScale).state
          /\ built = ~initialize_state(slots, s, SohScale, SohScale).raised
          /\ degradation \in Compositions(s)
          /\ fed = <<s>>
    /\ raised = FALSE
    /\ pre = state
    /\ call = NoCall
    /\ twin = state
    /\ steps = 0
    /\ last = "init"
    /\ \E T_ambient \in AmbientTemperatures :
          room = RoomThermalModel_init(T_ambient, registered(built))
    /\ deg_pre = degradation
    /\ calls = <<>>
    /\ DetectorIdle
    /\ AgingIdle

DegradedUpdate(power_setpoint, dt) ==
    /\ built
    /\ steps < MaxDegradedSteps
    /\ \E e0 \in {Battery_update(config, state, power_setpoint, dt, Nearest)} :
       \E fp \in RoundingsOf(e0.depends) :
       \E r \in {degradation_step(rounded(e0, config, state, power_setpoint, dt, fp),
                                   degradation, dt)} :
           /\ state' = r.state
           /\ raised' = r.raised
           /\ degradation' = r.model
           /\ calls' = r.calls
           /\ fed' = IF r.raised THEN fed ELSE Append(fed, r.state.soc)
           /\ call' = [power_setpoint |-> power_setpoint, dt |-> dt,
                       rounding |-> fp]
    /\ pre' = state
    /\ deg_pre' = degradation
    /\ steps' = steps + 1
    /\ last' = "Battery.update"
    /\ UNCHANGED <<config, built, twin, room>>
    /\ UNCHANGED detector_vars
    /\ UNCHANGED aging_vars

\* RoomThermalModel.update(dt) in the room of a battery with a degradation
\* model; what is recorded of the last Battery.update call is forgotten
DegradedThermalUpdate(dt) ==
    /\ steps < MaxDegradedSteps
    /\ state' = RoomThermalModel_update(room, Len(room.components), state, dt)
    /\ raised' = FALSE
    /\ pre' = state'
    /\ call' = NoCall
    /\ deg_pre' = degradation
    /\ calls' = <<>>
    /\ steps' = steps + 1
    /\ last' = "RoomThermalModel.update"
    /\ UNCHANGED <<config, built, twin, room, degradation, fed>>
    /\ UNCHANGED detector_vars
    /\ UNCHANGED aging_vars

\* RoomThermalModel.add_component(battery) in the room of a battery with a
\* degradation model
DegradedAddComponent ==
    /\ built
    /\ steps < MaxDegradedSteps
    /\ room' = RoomThermalModel_add_component(room, "battery")
    /\ raised' = FALSE
    /\ pre' = state
    /\ call' = NoCall
    /\ deg_pre' = degradation
    /\ calls' = <<>>
    /\ steps' = steps + 1
    /\ last' = "RoomThermalModel.add_component"
    /\ UNCHANGED <<config, built, state, twin, degradation, fed>>
    /\ UNCHANGED detector_vars
    /\ UNCHANGED aging_vars

\* degradation.update(battery.state, dt) called on its own, outside
\* Battery.update
DegradationUpdate(dt) ==
    /\ built
    /\ steps < MaxDegradedSteps
    /\ \E r \in {DegradationModel_update(degradation, state, dt)} :
           /\ state' = r.state
           /\ degradation' = r.model
           /\ calls' = r.calls
           /\ fed' = Append(fed, r.state.soc)
    /\ raised' = FALSE
    /\ pre' = state
    /\ call' = [NoCall EXCEPT !.dt = dt]
    /\ deg_pre' = degradation
    /\ steps' = steps + 1
    /\ last' = "DegradationModel.update"
    /\ UNCHANGED <<config, built, twin, room>>
    /\ UNCHANGED detector_vars
    /\ UNCHANGED aging_vars

DegradationNext ==
    \/ \E p \in DegradationSetpoints, dt \in Timesteps : DegradedUpdate(p, dt)
    \/ \E dt \in Timesteps : DegradationUpdate(dt)
    \/ \E dt \in Timesteps : DegradedThermalUpdate(dt)
    \/ DegradedAddComponent

DegradationSpec == DegradationInit /\ [][DegradationNext]_vars

(* ------------------------------------------------------------------ *)
(* specification of a Sony LFP calendar or cyclic model called        *)
(* directly, its deltas added up as DegradationModel.update adds them *)
(* to state.soh_Q and state.soh_R: d_soh_Q and d_soh_R are the        *)
(* changes of the two since the model was made                        *)
(* ------------------------------------------------------------------ *)
\* (T, soc) of the state handed to the calendar model: 5 C at soc 0.5,
\* 25 C at soc 0.1, 45 C at soc 0.5
OperatingPoints == {<<2781500, SocScale \div 2>>, <<T_REF, SocScale \div 10>>,
                    <<3181500, SocScale \div 2>>}

\* dt, s, of a calendar call
CalendarTimesteps == {0, 600, 86400}

\* (depth_of_discharge, c_rate) of a half-cycle: 0.2 at 0.5 C, 0.5 at 1 C,
\* 1.0 at 2 C
CycleShapes == {<<SocScale \div 5, 500>>, <<SocScale \div 2, 1000>>, <<SocScale, 2000>>}

\* full_equivalent_cycles of a half-cycle: 0, 0.05, 0.25
CycleFecs == {0, HalfScale \div 20, HalfScale \div 4}

SonyInit ==
    /\ BatteryIdle
    /\ DetectorIdle
    /\ DegradationIdle
    /\ \E k \in {"calendar", "cyclic"} :
          aging = [kind |-> k, model |-> SonyLFP_init, d_soh_Q |-> 0, d_soh_R |-> 0]
    /\ aging_pre = aging
    /\ aging_ret = [dq |-> 0, dr |-> 0]
    /\ history = <<>>

\* a BatteryState of the class as state.py declares it, at soc and T: the
\* state handed to a strategy that is called directly
declared_state(soc, T) ==
    [f \in BatteryState_declared |->
        [initialize_state_fill(initialize_state_keywords(soc, SohScale, SohScale)) EXCEPT !.T = T][f]]

\* the deltas of a strategy added to the soh, as DegradationModel.update does
aged(a, r) ==
    [a EXCEPT !.model = r.model, !.d_soh_Q = a.d_soh_Q + r.dq,
              !.d_soh_R = a.d_soh_R + r.dr]

SonyCalendarUpdate(T, soc, dt) ==
    /\ aging.kind = "calendar"
    /\ Len(history) < MaxCalls
    /\ \E st \in {declared_state(soc, T)} :
          \E r \in {SonyLFPCalendar_update(aging.model, st, dt)} :
             /\ aging' = aged(aging, r)
             /\ aging_ret' = [dq |-> r.dq, dr |-> r.dr]
             /\ history' = Append(history, CallEntry("calendar.update", st, dt, NoCycle))
    /\ aging_pre' = aging
    /\ UNCHANGED <<battery_vars, detector_vars, degradation_vars>>

SonyCyclicUpdate(shape, fec) ==
    /\ aging.kind = "cyclic"
    /\ Len(history) < MaxCalls
    /\ \E st \in {declared_state(SocScale \div 2, start_T)},
          hc \in {[depth_of_discharge |-> shape[1], mean_soc |-> HalfScale \div 2,
                   c_rate |-> shape[2], full_equivalent_cycles |-> fec]} :
          \E r \in {SonyLFPCyclic_update(aging.model, st, hc)} :
             /\ aging' = aged(aging, r)
             /\ aging_ret' = [dq |-> r.dq, dr |-> r.dr]
             /\ history' = Append(history, CallEntry("cyclic.update", st, None, hc))
    /\ aging_pre' = aging
    /\ UNCHANGED <<battery_vars, detector_vars, degradation_vars>>

SonyNext ==
    \/ \E o \in OperatingPoints, dt \in CalendarTimesteps :
          SonyCalendarUpdate(o[1], o[2], dt)
    \/ \E shape \in CycleShapes, fec \in CycleFecs : SonyCyclicUpdate(shape, fec)

SonySpec == SonyInit /\ [][SonyNext]_vars

(* ------------------------------------------------------------------ *)
(* properties of Battery.update (specification Spec)                  *)
(* ------------------------------------------------------------------ *)
\* the operation called last is Battery.update
Updated == last = "Battery.update"

\* the operation called last is a Battery.update that has not raised
Committed == last = "Battery.update" /\ ~raised

soc_min == config.soc_limits[1]

soc_max == config.soc_limits[2]

\* the soc was inside its window when the last call was entered.  A battery
\* is built with any start_soc (Battery.__init__ compares it with nothing),
\* and an update that commits brings the soc into the window.
entered_inside == soc_min <= pre.soc /\ pre.soc <= soc_max

\* C1: Battery.update completes without raising for every finite
\* power_setpoint of either sign and any magnitude and every dt > 0: no call
\* ends in an exception.
C1_UpdateNeverRaises == ~raised

C4_ZeroSetpointRests ==
    (Updated /\ call.power_setpoint = 0) =>
        /\ ~raised
        /\ state.i = 0
        /\ state.soc = pre.soc
        /\ state.power = 0
        /\ state.loss = 0

\* C4 amended: Battery.update with power_setpoint = 0 commits i = 0 exactly
\* and yields power = 0 and loss = 0, from any prior state and whether or
\* not derating is configured; it leaves state.soc unchanged when the soc is
\* inside [soc_min, soc_max], and commits the nearer bound of the window when
\* it is not.
C4_ZeroSetpointRestsInsideWindow ==
    (Updated /\ call.power_setpoint = 0) =>
        /\ ~raised
        /\ state.i = 0
        /\ entered_inside => state.soc = pre.soc
        /\ pre.soc < soc_min => state.soc = soc_min
        /\ pre.soc > soc_max => state.soc = soc_max
        /\ state.power = 0
        /\ state.loss = 0

\* a rest step right after a step that moved current, on a derated battery
C4_Witness ==
    /\ Committed
    /\ entered_inside
    /\ call.power_setpoint = 0
    /\ pre.i # 0
    /\ pre.loss > 0
    /\ has_linear_derating(config)
    /\ state.i = 0

\* C5: state.is_charge records the direction of the last non-zero committed
\* current: an update that commits i = 0 leaves is_charge at its previous
\* value (True or False), an update that commits i # 0 sets it to (i > 0).
C5_IsChargeKeptAtRest ==
    Committed =>
        /\ (state.i = 0 => state.is_charge = pre.is_charge)
        /\ (state.i # 0 => state.is_charge = (state.i > 0))

bounds_left_alone ==
    /\ raised
    /\ state.i = pre.i
    /\ state.i_max_charge = pre.i_max_charge
    /\ state.i_max_discharge = pre.i_max_discharge

clamped_order ==
    derate_voltage_order(config, pre, call.power_setpoint, call.dt,
                         state.hys, state.rint, capacity(pre),
                         derate_voltage_start(config, twin.i))

\* the terminal voltage at the clamped charge current has passed the charge
\* derate-start voltage: derating reduces the current, on the current grid
\* possibly by less than a step
charge_past_derate_start ==
    derating_reduces_charge(config, twin.i, clamped_order, call.rounding)

\* likewise for a discharge current
discharge_past_derate_start ==
    derating_reduces_discharge(config, twin.i, clamped_order, call.rounding)

\* the terminal voltage the twin commits is that of the clamped current in
\* the program up to the rounding of the current and of the voltage to their
\* grids, and up to SocSlack steps of soc: these move the open-circuit
\* voltage by OcvSlack and a clamped current that is the soc candidate by
\* SocSlack steps of soc in the shortest timestep, 167 mA, through a
\* resistance of at most 1.5 mOhm.  Together less than VoltageBand grid steps.
VoltageBand == 300

\* a committed voltage clear of the derate-start voltage by the rounding of
\* the grids tells whether derating reduces the current
PastDerateStartShows(charge_reduced, discharge_reduced) ==
    /\ (config.charge_derate # None /\ twin.i > 0) =>
          /\ twin.v >= charge_derate_voltage_start(config) + VoltageBand
                => charge_reduced
          /\ twin.v <= charge_derate_voltage_start(config) - VoltageBand
                => ~charge_reduced
    /\ (config.discharge_derate # None /\ twin.i < 0) =>
          /\ twin.v <= discharge_derate_voltage_start(config) - VoltageBand
                => discharge_reduced
          /\ twin.v >= discharge_derate_voltage_start(config) + VoltageBand
                => ~discharge_reduced

\* the three candidates of each side, from the state at entry of the call
charge_candidates ==
    {max_charge_current,
     MulDiv(max_voltage - state.ocv - state.hys,
            (CurrentScale * OhmScale) \div VoltScale, state.rint),
     MulDiv(soc_max - pre.soc, nominal_capacity * pre.soh_Q, SocPerSecond * call.dt)}

discharge_candidates ==
    {0 - max_discharge_current,
     MulDiv(min_voltage - state.ocv - state.hys,
            (CurrentScale * OhmScale) \div VoltScale, state.rint),
     MulDiv(soc_min - pre.soc, nominal_capacity * pre.soh_Q, SocPerSecond * call.dt)}

\* each reported bound is the most restrictive of its three candidates, or
\* the derated current where derating has reduced the clamped current
most_restrictive ==
    /\ \A x \in charge_candidates : state.i_max_charge <= x
    /\ \A x \in discharge_candidates : state.i_max_discharge >= x
    /\ \/ state.i_max_charge \in charge_candidates
       \/ /\ charge_past_derate_start
          /\ state.i_max_charge = state.i
          /\ state.i <= twin.i
    /\ \/ state.i_max_discharge \in discharge_candidates
       \/ /\ discharge_past_derate_start
          /\ state.i_max_discharge = state.i
          /\ state.i >= twin.i

one_sided_derating ==
    (config.charge_derate # None) # (config.discharge_derate # None)

\* the terminal voltage at the clamped current has passed the derate-start
\* voltage of the direction of the current
past_derate_start == charge_past_derate_start \/ discharge_past_derate_start

\* Sign(v - limit) of the last call, for the terminal voltage v at the
\* clamped current and the voltage limit of the direction of that current
limit_order ==
    curtailed_voltage_order(config, pre, call.power_setpoint, call.dt,
                            state.ocv, state.hys, state.rint, capacity(pre),
                            IF twin.i > 0 THEN max_voltage ELSE min_voltage)

\* the terminal voltage at the clamped current is past the derate-start
\* voltage and short of the limit: the derated current is not zero
derated_short_of_limit ==
    \/ charge_past_derate_start /\ limit_order < 0
    \/ discharge_past_derate_start /\ limit_order > 0

\* the sign of the current the derated battery commits; a current that is
\* not zero and shows as zero on the current grid, as inside the derating
\* zone, has the sign of the clamped current
derated_sign ==
    IF state.i # 0 THEN Sign(state.i)
    ELSE IF derated_short_of_limit THEN Sign(twin.i)
    ELSE 0

\* C8: for two batteries identical except for one derate-start voltage,
\* stepped from the same state with the same arguments, the derated
\* battery's committed current has the same sign as, and a magnitude not
\* larger than, the other's; and when the terminal voltage at the clamped
\* current is not inside the derating zone all committed fields are identical.
C8_DeratedSameSignSmaller ==
    (Committed /\ one_sided_derating) =>
        /\ derated_sign = Sign(twin.i)
        /\ Abs(state.i) <= Abs(twin.i)
        /\ (~past_derate_start => state = twin)

(* ------------------------------------------------------------------ *)
(* properties of HalfCycleDetector.update (specification DetectorSpec)*)
(* ------------------------------------------------------------------ *)
Sampled == samples > 0

\* the last call saw the soc move against an established direction
reversal ==
    LET delta == det_call.soc - det_pre.prev_soc
    IN  /\ delta # 0
        /\ det_pre.direction # 0
        /\ Sign(delta) # det_pre.direction

\* C9: HalfCycleDetector.update returns True exactly on the calls where the
\* soc differs from the previous sample, a direction is established and the
\* change is opposite to it; on such a call last_cycle is replaced by the
\* record finalized on it (the span from the start soc to the previous
\* sample); on every other call it returns False and last_cycle and total_fec
\* are unchanged.
C9_TrueExactlyOnReversal ==
    Sampled =>
        /\ det_ret = reversal
        /\ reversal =>
              /\ det.last_cycle # NoCycle
              /\ det.last_cycle.depth_of_discharge
                    = Abs(det_pre.prev_soc - det_pre.start_soc)
              /\ det.last_cycle = finalized[Len(finalized)]
        /\ ~reversal =>
              /\ det.last_cycle = det_pre.last_cycle
              /\ det.total_fec = det_pre.total_fec

\* a second reversal: the record of the first one is replaced by a different one
C9_Witness ==
    /\ Sampled
    /\ det_ret
    /\ det_pre.last_cycle # NoCycle
    /\ det.last_cycle # det_pre.last_cycle

RECURSIVE SumFec(_)
SumFec(cycles) ==
    IF cycles = <<>> THEN 0
    ELSE cycles[1].full_equivalent_cycles + SumFec(Tail(cycles))

\* C10: every finalized HalfCycle has full_equivalent_cycles =
\* depth_of_discharge / 2 (fec / HalfScale = (dod / SocScale) / 2), total_fec
\* equals the sum of full_equivalent_cycles of all half-cycles finalized so
\* far, and no call decreases it.
C10_FecHalfDodAndRunningSum ==
    /\ \A k \in 1..Len(finalized) :
          2 * finalized[k].full_equivalent_cycles
             = finalized[k].depth_of_discharge * (HalfScale \div SocScale)
    /\ det.total_fec = SumFec(finalized)
    /\ det.total_fec >= det_pre.total_fec

\* two half-cycles of different depth have been finalized
C10_Witness ==
    /\ Len(finalized) >= 2
    /\ finalized[1].depth_of_discharge # finalized[2].depth_of_discharge
    /\ finalized[1].full_equivalent_cycles > 0
    /\ det.total_fec > finalized[2].full_equivalent_cycles

\* C11: a rest sample (soc equal to the previous sample) fed to
\* HalfCycleDetector.update returns False and leaves every field of the
\* detector as it was (direction, start soc, previous soc, elapsed time, soc
\* sum, sample count, total_fec, last_cycle), whatever dt is.
C11_RestSampleChangesNothing ==
    (Sampled /\ det_call.soc = det_pre.prev_soc) =>
        /\ ~det_ret
        /\ det.direction = det_pre.direction
        /\ det.start_soc = det_pre.start_soc
        /\ det.prev_soc = det_pre.prev_soc
        /\ det.elapsed_time = det_pre.elapsed_time
        /\ det.soc_sum = det_pre.soc_sum
        /\ det.soc_samples = det_pre.soc_samples
        /\ det.total_fec = det_pre.total_fec
        /\ det.last_cycle = det_pre.last_cycle

\* a rest sample with the long dt arrives in the middle of a half-cycle, after
\* an earlier one has been finalized
C11_Witness ==
    /\ Sampled
    /\ det_call.soc = det_pre.prev_soc
    /\ det_call.dt = 3600
    /\ det_pre.direction # 0
    /\ det_pre.elapsed_time > 0
    /\ det_pre.soc_samples > 0
    /\ det_pre.last_cycle # NoCycle
    /\ det = det_pre

(* ------------------------------------------------------------------ *)
(* properties of DegradationModel.update (specification               *)
(* DegradationSpec)                                                   *)
(* ------------------------------------------------------------------ *)
\* the entries of the call log of the last Battery.update with the given op
CallsOf(op) == SelectSeq(calls, LAMBDA e : e.op = op)

RECURSIVE CountReversals(_, _, _)
\* direction reversals in the samples socs that follow the sample prev, when
\* dir is the direction established so far
CountReversals(socs, prev, dir) ==
    IF socs = <<>> THEN 0
    ELSE LET delta == Head(socs) - prev
         IN  IF delta = 0
             THEN CountReversals(Tail(socs), prev, dir)
             ELSE IF dir = 0 \/ Sign(delta) = dir
             THEN CountReversals(Tail(socs), Head(socs), Sign(delta))
             ELSE 1 + CountReversals(Tail(socs), Head(socs), Sign(delta))

\* direction reversals of a soc trace that starts with initial_soc
Reversals(socs) == CountReversals(Tail(socs), Head(socs), 0)

\* the soc fed by the last DegradationModel.update reversed the direction
ReversedNow ==
    /\ Len(fed) >= 2
    /\ Reversals(fed) = Reversals(SubSeq(fed, 1, Len(fed) - 1)) + 1

\* C12: every DegradationModel.update calls calendar.update exactly once,
\* with the dt of the timestep, also on rest timesteps and on timesteps
\* without a reversal, and the deltas it returns are already added to
\* state.soh_Q and state.soh_R when the half-cycle detector is fed; a counting
\* calendar strategy has counted one call per DegradationModel.update.
C12_CalendarOnceBeforeDetector ==
    Committed =>
        /\ Len(CallsOf("calendar.update")) = 1
        /\ Len(calls) >= 2
        /\ calls[1].op = "calendar.update"
        /\ calls[1].dt = call.dt
        /\ calls[2].op = "cycle_detector.update"
        /\ calls[2].state.soh_Q = pre.soh_Q + deg_pre.calendar.dq
        /\ calls[2].state.soh_R = pre.soh_R + deg_pre.calendar.dr
        /\ degradation.calendar.kind = "mock" =>
              /\ degradation.calendar.call_count = deg_pre.calendar.call_count + 1
              /\ degradation.calendar.call_count = Len(fed) - 1

\* a rest timestep after the soc has moved: the calendar strategy has run on
\* it and its deltas are in the state
C12_Witness ==
    /\ Committed
    /\ call.power_setpoint = 0
    /\ state.soc = pre.soc
    /\ fed[1] # state.soc
    /\ degradation.calendar.call_count >= 2
    /\ state.soh_Q = pre.soh_Q - 1
    /\ state.soh_R = pre.soh_R + 1

\* C13: DegradationModel.update calls cyclic.update once, with the record
\* the detector has just finalized, on the calls whose soc reverses the
\* direction of the soc trace, and not at all on any other call; a counting
\* cyclic strategy has counted as many calls as the soc trace has reversals.
C13_CyclicExactlyOnReversal ==
    /\ Committed =>
          /\ Len(CallsOf("cyclic.update")) = IF ReversedNow THEN 1 ELSE 0
          /\ ReversedNow =>
                /\ calls[Len(calls)].op = "cyclic.update"
                /\ calls[Len(calls)].half_cycle = degradation.cycle_detector.last_cycle
                /\ calls[Len(calls)].half_cycle = make_half_cycle(deg_pre.cycle_detector)
    /\ (Updated /\ degradation.cyclic.kind = "mock") =>
          degradation.cyclic.call_count = Reversals(fed)

\* the second reversal of a trace, with a half-cycle of non-zero depth
C13_Witness ==
    /\ Committed
    /\ ReversedNow
    /\ degradation.cyclic.call_count = 2
    /\ degradation.cycle_detector.last_cycle.depth_of_discharge > 0
    /\ state.soh_Q = pre.soh_Q - 11

\* C14: with a degradation model attached, every Battery.update call runs
\* degradation.update exactly once, and the state handed to the calendar
\* strategy and the soc fed to the detector are the ones the electrical update
\* of the same call has committed (soc, v, i, power, loss, ocv, hys, rint,
\* is_charge, bounds).
C14_DegradationOnceAfterCommit ==
    Updated =>
        /\ Len(CallsOf("calendar.update")) = 1
        /\ Len(CallsOf("cycle_detector.update")) = 1
        /\ calls[1].state
              = Battery_update(config, pre, call.power_setpoint, call.dt, call.rounding).state
        /\ calls[2].state.soc = state.soc

\* C20: in a calendar_only composition state.soh_Q and state.soh_R change on
\* every update by the deltas of the calendar strategy and nothing else, also
\* on an update that finalizes a half-cycle; in a cyclic_only composition they
\* do not change on an update that finalizes no half-cycle.
C20_NoOpSlotContributesNothing ==
    Committed =>
        /\ (degradation.calendar.kind = "mock" /\ degradation.cyclic.kind = "noop") =>
              /\ state.soh_Q = pre.soh_Q + deg_pre.calendar.dq
              /\ state.soh_R = pre.soh_R + deg_pre.calendar.dr
        /\ (degradation.calendar.kind = "noop" /\ degradation.cyclic.kind = "mock"
              /\ ~ReversedNow) =>
              /\ state.soh_Q = pre.soh_Q
              /\ state.soh_R = pre.soh_R

\* a calendar_only composition on an update that finalizes a half-cycle
C20_Witness ==
    /\ Committed
    /\ degradation.calendar.kind = "mock"
    /\ degradation.cyclic.kind = "noop"
    /\ ReversedNow
    /\ Len(CallsOf("cyclic.update")) = 1
    /\ state.soh_Q = pre.soh_Q - 1

(* ------------------------------------------------------------------ *)
(* properties of the Sony LFP degradation models (specification       *)
(* SonySpec)                                                          *)
(* ------------------------------------------------------------------ *)
AgingCalled == Len(history) > 0

LastCall == history[Len(history)]

\* the operating conditions the stress factors of a call are computed from
StressOf(e) ==
    IF e.op = "calendar.update"
    THEN <<e.state.T, e.state.soc>>
    ELSE <<e.half_cycle.depth_of_discharge, e.half_cycle.c_rate>>

\* the increment of the driving variable of a call: dt or delta_fec
IncrementOf(e) ==
    IF e.op = "calendar.update" THEN e.dt
                                ELSE e.half_cycle.full_equivalent_cycles

ConstantStress ==
    \A k \in 1..Len(history) : StressOf(history[k]) = StressOf(history[1])

RECURSIVE SumIncrements(_)
SumIncrements(h) ==
    IF h = <<>> THEN 0 ELSE IncrementOf(h[1]) + SumIncrements(Tail(h))

\* one call on a fresh model under the stress of the first call of the
\* history, with the increments of the whole history in one
SingleCall ==
    LET first == history[1]
        D     == SumIncrements(history)
    IN  IF first.op = "calendar.update"
        THEN SonyLFPCalendar_update(SonyLFP_init, first.state, D)
        ELSE SonyLFPCyclic_update(SonyLFP_init, first.state,
                 [first.half_cycle EXCEPT !.full_equivalent_cycles = D])

\* relative tolerance of the continuity tests, percent
TolerancePercent == 2

\* x == pytest.approx(y, rel=0.02)
Approx(x, y) == 100 * Abs(x - y) <= TolerancePercent * Abs(y)

\* C15: every update of the Sony LFP calendar and cyclic model returns
\* delta_soh_Q <= 0 and does not decrease the accumulated capacity loss, also
\* when the stress factor differs from the one of the call before, so the
\* soh_Q the deltas are added to never increases.
C15_CapacityOnlyLost ==
    AgingCalled =>
        /\ aging_ret.dq <= 0
        /\ aging.model.accumulated_qloss >= aging_pre.model.accumulated_qloss
        /\ aging.model.accumulated_qloss
              = aging_pre.model.accumulated_qloss - aging_ret.dq
        /\ aging.d_soh_Q <= aging_pre.d_soh_Q

\* a call under a stress factor other than that of the call before, on a
\* model that has accumulated loss, returns a loss
C15_Witness ==
    /\ Len(history) >= 2
    /\ StressOf(LastCall) # StressOf(history[Len(history) - 1])
    /\ aging_pre.model.accumulated_qloss > 0
    /\ aging_ret.dq < 0
    /\ aging.d_soh_Q < aging_pre.d_soh_Q

\* C16: SonyLFPCyclicDegradation.update returns delta_soh_R >= 0 for every
\* half-cycle, so the soh_R the deltas are added to never decreases.
C16_CyclicResistanceNeverDecreases ==
    (AgingCalled /\ aging.kind = "cyclic") =>
        /\ aging_ret.dr >= 0
        /\ aging.d_soh_R >= aging_pre.d_soh_R

\* C17: when every call so far was made under the same stress factors, the
\* capacity loss and the resistance increase summed over the calls are within
\* 2 percent of what one call on a fresh model returns for the sum of the
\* increments.
C17_SplitIndependent ==
    (AgingCalled /\ ConstantStress) =>
        /\ Approx(aging.d_soh_Q, SingleCall.dq)
        /\ Approx(aging.d_soh_R, SingleCall.dr)

\* three or more calls of unequal increments under one stress factor
C17_Witness ==
    /\ Len(history) >= 3
    /\ ConstantStress
    /\ \A k \in 1..Len(history) : IncrementOf(history[k]) > 0
    /\ IncrementOf(history[1]) # IncrementOf(history[2])
    /\ aging.d_soh_Q < aging_pre.d_soh_Q
    /\ aging_pre.d_soh_Q < 0
    /\ SingleCall.dq < 0

\* C18: a calendar update with dt == 0 and a cyclic update with a half-cycle
\* of full_equivalent_cycles == 0 return (0, 0) and leave the accumulated
\* capacity loss and resistance increase of the model as they were.
C18_ZeroIncrementChangesNothing ==
    (AgingCalled /\ IncrementOf(LastCall) = 0) =>
        /\ aging_ret = [dq |-> 0, dr |-> 0]
        /\ aging.model = aging_pre.model
        /\ aging = aging_pre

\* a zero timestep on a calendar model that has accumulated loss, under
\* another stress factor than the call before
C18_Witness ==
    /\ Len(history) >= 2
    /\ LastCall.op = "calendar.update"
    /\ LastCall.dt = 0
    /\ StressOf(LastCall) # StressOf(history[Len(history) - 1])
    /\ aging_pre.model.accumulated_qloss > 0
    /\ aging_pre.model.accumulated_rinc > 0
    /\ aging = aging_pre

(* ------------------------------------------------------------------ *)
(* the equilibrium current of Battery.update (specification Spec)     *)
(* ------------------------------------------------------------------ *)
\* i * (ocv + hys + rint * i) with the ocv, hys and rint committed by the
\* last update, on the power grid
power_at(i) ==
    MulDiv(i,
           state.ocv + state.hys
              + MulDiv(state.rint, i, (CurrentScale * OhmScale) \div VoltScale),
           (VoltScale * CurrentScale) \div PowerScale)

\* what calculate_max_currents returned in the last update
hard_bounds ==
    calculate_max_currents(config, pre, call.dt, state.ocv, state.hys, state.rint,
                           capacity(pre))

\* no limit curtails the setpoint of the last update: it lies inside the
\* powers at the two hard limits of calculate_max_currents by a grid step of
\* the current, and derating does not reduce the current
Uncurtailed ==
    /\ Committed
    /\ LET bounds == hard_bounds
       IN  /\ bounds.i_max_discharge + 1 <= bounds.i_max_charge - 1
           /\ power_at(bounds.i_max_discharge + 1) <= call.power_setpoint
           /\ call.power_setpoint <= power_at(bounds.i_max_charge - 1)
    /\ ~past_derate_start

\* what equilibrium_current returns for the arguments update passed in the
\* last call
solved_current ==
    equilibrium_current(call.power_setpoint, state.ocv, state.hys, state.rint,
                        call.rounding)

\* C19: for a setpoint that no limit curtails, equilibrium_current returns a
\* current that update commits unchanged, that has the sign of power_setpoint
\* and solves power_setpoint = i * (ocv + hys + rint * i) to the resolution
\* of the current grid (the setpoint lies between the powers of the two
\* neighbouring grid currents), so that the committed power is the setpoint
\* to a step of the power grid, and that is on the branch of the quadratic
\* that passes through i = 0 at power_setpoint = 0.
C19_EquilibriumCurrentSolvesPowerBalance ==
    Uncurtailed =>
        LET eq == solved_current
        IN  /\ ~eq.raised
            /\ state.i = eq.i
            /\ Sign(eq.i) = Sign(call.power_setpoint)
            /\ power_at(eq.i - 1) <= call.power_setpoint
            /\ call.power_setpoint <= power_at(eq.i + 1)
            /\ Abs(state.power - call.power_setpoint) <= 1
            /\ state.ocv + state.hys + 2 * ohmic_drop(state.rint, eq.i) > 0

\* an uncurtailed charge at a current where the ohmic term matters
C19_Witness ==
    /\ Uncurtailed
    /\ call.power_setpoint = 300 * PowerScale
    /\ state.i > 50 * CurrentScale
    /\ state.i < hard_bounds.i_max_charge
    /\ state.loss > 4 * LossScale

(* ------------------------------------------------------------------ *)
(* field ownership (specification DegradationSpec)                    *)
(* ------------------------------------------------------------------ *)
\* the fields of BatteryState the degradation model owns
soh_fields == {"soh_Q", "soh_R"}

\* what Battery.update commits from the state and the arguments of the last
\* call when no degradation model is attached
electrical ==
    Battery_update(config, pre, call.power_setpoint, call.dt, call.rounding).state

\* C21: Battery.update without a degradation model leaves soh_Q, soh_R and T
\* as they were; with a degradation model attached it leaves T as it was; and
\* DegradationModel.update changes no field of the state it is handed other
\* than soh_Q and soh_R: every other field (soc, i, v, power, loss, ocv, hys,
\* rint, is_charge, T, the setpoint and the bounds) is after the call, and in
\* every state it hands to a strategy, what the electrical update committed
\* or, when DegradationModel.update is called on its own, what the field was
\* before the call.
C21_FieldOwnership ==
    /\ Updated =>
          LET e == electrical
          IN  /\ e.soh_Q = pre.soh_Q
              /\ e.soh_R = pre.soh_R
              /\ e.T = pre.T
              /\ state.T = pre.T
              /\ Committed =>
                    /\ \A f \in (DOMAIN state) \ soh_fields : state[f] = e[f]
                    /\ \A k \in 1..Len(calls) :
                          \A f \in (DOMAIN state) \ soh_fields :
                             calls[k].state[f] = e[f]
    /\ last = "DegradationModel.update" =>
          /\ \A f \in (DOMAIN state) \ soh_fields : state[f] = pre[f]
          /\ \A k \in 1..Len(calls) :
                \A f \in (DOMAIN state) \ soh_fields : calls[k].state[f] = pre[f]

\* an update of an aged battery, whose temperature the thermal model has
\* moved, that moves the soc and finalizes a half-cycle: both strategies have
\* written the soh fields
C21_Witness ==
    /\ Committed
    /\ pre.soh_Q < SohScale
    /\ state.soc # pre.soc
    /\ state.i # 0
    /\ Len(CallsOf("cyclic.update")) = 1
    /\ state.soh_Q = pre.soh_Q - 11
    /\ state.soh_R = pre.soh_R + 11
    /\ pre.T # start_T
    /\ state.T = pre.T

(* ------------------------------------------------------------------ *)
(* the reported bounds under derating (specification Spec)            *)
(* ------------------------------------------------------------------ *)
\* C22: when derating does not reduce the clamped current (the current the
\* same call commits without derating), that is when the voltage at the
\* clamped current has not passed the derate-start voltage, derating is not
\* configured for the direction of the current, or the clamped current is 0,
\* the committed current is the clamped current and state.i_max_charge and
\* state.i_max_discharge are the values of calculate_max_currents; when
\* derating reduces a charge current, i_max_charge is lowered to at most the
\* derated current and i_max_discharge is the value of
\* calculate_max_currents, and symmetrically for discharge.  A reduction is
\* strict in the code and may round to nothing on the current grid.
C22_BoundOverwrittenOnlyWhenDerated ==
    Committed =>
        LET charge_reduced == charge_past_derate_start
            discharge_reduced == discharge_past_derate_start
            bounds == hard_bounds
        IN  /\ PastDerateStartShows(charge_reduced, discharge_reduced)
            /\ ~(charge_reduced \/ discharge_reduced) =>
                  /\ state.i = twin.i
                  /\ state.i_max_charge = bounds.i_max_charge
                  /\ state.i_max_discharge = bounds.i_max_discharge
            /\ state.i # twin.i => (charge_reduced \/ discharge_reduced)
            /\ charge_reduced =>
                  /\ state.i <= twin.i
                  /\ state.i_max_charge <= state.i
                  /\ state.i_max_charge <= bounds.i_max_charge
                  /\ state.i_max_discharge = bounds.i_max_discharge
            /\ discharge_reduced =>
                  /\ state.i >= twin.i
                  /\ state.i_max_discharge >= state.i
                  /\ state.i_max_discharge >= bounds.i_max_discharge
                  /\ state.i_max_charge = bounds.i_max_charge

\* charge derating has reduced the current, but not to zero: the charge bound
\* reports the derated current and the discharge bound the hard limit
C22_Witness ==
    /\ Committed
    /\ config.charge_derate # None
    /\ twin.i > 0
    /\ state.i > 0
    /\ state.i < twin.i
    /\ state.i_max_charge = state.i
    /\ state.i_max_charge < hard_bounds.i_max_charge
    /\ state.i_max_discharge = hard_bounds.i_max_discharge
    /\ state.i_max_discharge < 0

(* ------------------------------------------------------------------ *)
(* the half-cycles of a soc trace (specification DetectorSpec)        *)
(*                                                                    *)
(* The half-cycles are read off the trace of samples: a half-cycle is *)
(* a maximal run of samples that moved the soc in one direction, rest *)
(* samples aside.                                                     *)
(* ------------------------------------------------------------------ *)
\* the positions of the samples that moved the soc
Moves == {k \in 2..Len(trace) : trace[k].soc # trace[k - 1].soc}

MoveSign(k) == Sign(trace[k].soc - trace[k - 1].soc)

\* sample k moved the soc against the move before it
Reversing(k) ==
    LET earlier == {m \in Moves : m < k}
    IN  /\ k \in Moves
        /\ \E m \in earlier :
              /\ \A n \in earlier : n <= m
              /\ MoveSign(m) # MoveSign(k)

\* the positions of the samples that reversed the direction
ReversingMoves == {k \in Moves : Reversing(k)}

\* the moves that make up half-cycle r: those with r - 1 reversing moves up to
\* and including them
Members(r) ==
    LET reversing == ReversingMoves
    IN  {k \in Moves : 1 + Cardinality({j \in reversing : j <= k}) = r}

Lowest(S) == CHOOSE k \in S : \A j \in S : k <= j

Highest(S) == CHOOSE k \in S : \A j \in S : k >= j

First(r) == Lowest(Members(r))

Last(r) == Highest(Members(r))

\* the soc half-cycle r starts from and the soc of its last sample
SpanStart(r) == trace[First(r) - 1].soc

SpanEnd(r) == trace[Last(r)].soc

RECURSIVE SumDt(_)
\* the dt of the samples at the positions S, summed
SumDt(S) ==
    IF S = {} THEN 0
    ELSE LET k == CHOOSE x \in S : TRUE
         IN  trace[k].dt + SumDt(S \ {k})

RECURSIVE SumMidpoints(_)
\* (soc_(k-1) + soc_k) / 2 of the samples at the positions S, summed, on the
\* half-step grid
SumMidpoints(S) ==
    IF S = {} THEN 0
    ELSE LET k == CHOOSE x \in S : TRUE
         IN  (trace[k - 1].soc + trace[k].soc) + SumMidpoints(S \ {k})

RECURSIVE SumAbsMoves(_)
\* |soc_k - soc_(k-1)| of the samples at the positions S, summed
SumAbsMoves(S) ==
    IF S = {} THEN 0
    ELSE LET k == CHOOSE x \in S : TRUE
         IN  Abs(trace[k].soc - trace[k - 1].soc) + SumAbsMoves(S \ {k})

\* C23: every finalized half-cycle spans from the soc it started from to its
\* last sample; on a reversal the finalized depth_of_discharge is
\* |prev_soc - start_soc| of the detector at entry, prev_soc being the sample
\* before the reversing one, and after the call the detector is in a new
\* half-cycle that starts at that previous sample, has the direction of the
\* reversing sample, and has counted the reversing sample alone (elapsed time
\* = dt, one sample, soc sum = its midpoint).
C23_ReversalFinalizesUpToPreviousSample ==
    /\ \A r \in 1..Len(finalized) :
          LET members == Members(r)
          IN  finalized[r].depth_of_discharge
                 = Abs(trace[Highest(members)].soc - trace[Lowest(members) - 1].soc)
    /\ (Sampled /\ det_ret) =>
          LET n == Len(trace)
              r == Len(finalized)
              members == Members(r)
          IN  /\ det_pre.prev_soc = trace[n - 1].soc
              /\ det_pre.start_soc = trace[Lowest(members) - 1].soc
              /\ Highest(members) < n
              /\ finalized[r].depth_of_discharge
                    = Abs(det_pre.prev_soc - det_pre.start_soc)
              /\ det.start_soc = trace[n - 1].soc
              /\ det.direction = MoveSign(n)
              /\ det.direction # det_pre.direction
              /\ det.elapsed_time = trace[n].dt
              /\ det.soc_samples = 1
              /\ det.soc_sum = trace[n - 1].soc + trace[n].soc
              /\ det.prev_soc = trace[n].soc

\* the second reversal of a trace: the half-cycle it finalizes began at the
\* sample before the first reversal and the reversing sample lies elsewhere
\* than its start
C23_Witness ==
    /\ Sampled
    /\ det_ret
    /\ Len(finalized) = 2
    /\ det_pre.start_soc # trace[1].soc
    /\ det_call.soc # det_pre.start_soc
    /\ det_call.dt # det_pre.elapsed_time
    /\ finalized[2].depth_of_discharge # Abs(det_call.soc - det_pre.start_soc)

\* C24: the c_rate of every finalized half-cycle is its depth_of_discharge
\* divided by its elapsed hours, the elapsed time being the sum of dt over
\* the samples that moved the soc within the half-cycle: the dt of the sample
\* that reversed into it is counted, the dt of rest samples and of the sample
\* that ended it is not.  (dod / SocScale) / (seconds / SecondsPerHour) in
\* 1/CRateScale is dod * CRateScale / seconds.
C24_CRateOverMovingSamples ==
    /\ \A r \in 1..Len(finalized) :
          LET elapsed == SumDt(Members(r))
          IN  /\ elapsed > 0
              /\ finalized[r].c_rate
                    = MulDiv(finalized[r].depth_of_discharge, CRateScale,
                             SocPerSecond * elapsed)
    /\ (Sampled /\ det_ret) =>
          det_pre.elapsed_time = SumDt(Members(Len(finalized)))

\* the second half-cycle of a trace is finalized after two moves of unequal
\* dt, the reversing one among them
C24_Witness ==
    /\ Sampled
    /\ det_ret
    /\ Len(finalized) = 2
    /\ Cardinality(Members(2)) = 2
    /\ Reversing(First(2))
    /\ trace[First(2)].dt # trace[Last(2)].dt
    /\ det_pre.elapsed_time = 3660
    /\ finalized[2].c_rate > 0

\* C25: the mean_soc of every finalized half-cycle is the sum of the interval
\* midpoints (soc_(k-1) + soc_k) / 2 of the samples that moved the soc within
\* it, divided by their number; the dt of the samples does not enter.
C25_MeanSocUnweighted ==
    \A r \in 1..Len(finalized) :
        LET members == Members(r)
        IN  /\ Cardinality(members) >= 1
            /\ finalized[r].mean_soc
                  = DivRound(SumMidpoints(members), Cardinality(members))

\* a half-cycle of two moves of unequal length and unequal dt: its mean_soc
\* is neither the midpoint of its span nor the mean weighted by dt
C25_Witness ==
    /\ Len(finalized) >= 1
    /\ Cardinality(Members(1)) = 2
    /\ trace[First(1)].dt # trace[Last(1)].dt
    /\ finalized[1].mean_soc # SpanStart(1) + SpanEnd(1)
    /\ LET a == First(1)
           b == Last(1)
       IN  finalized[1].mean_soc
              # DivRound((trace[a - 1].soc + trace[a].soc) * trace[a].dt
                            + (trace[b - 1].soc + trace[b].soc) * trace[b].dt,
                         trace[a].dt + trace[b].dt)

\* C28: after any sequence of update calls, 2 * total_fec +
\* |prev_soc - start_soc| equals the sum of |soc_k - soc_(k-1)| over all
\* samples fed, starting from the initial soc (total_fec on the half-step
\* grid, the soc on the soc grid): every movement of the soc is counted once,
\* in a finalized half-cycle or in the one in progress.
C28_ThroughputConserved ==
    2 * det.total_fec + Abs(det.prev_soc - det.start_soc) * (HalfScale \div SocScale)
        = SumAbsMoves(Moves) * (HalfScale \div SocScale)

\* two half-cycles finalized and a third one in progress, with a rest sample
\* somewhere in the trace
C28_Witness ==
    /\ Len(finalized) = 2
    /\ det.total_fec > 0
    /\ det.prev_soc # det.start_soc
    /\ Cardinality(Moves) < Len(trace) - 1
    /\ SumAbsMoves(Moves) > Abs(det.prev_soc - trace[1].soc)

\* C29: every finalized half-cycle has depth_of_discharge > 0 and
\* full_equivalent_cycles > 0, so every call that returns True increases
\* total_fec; a detector that has a direction keeps one; and whenever a
\* direction is established the half-cycle in progress has at least one
\* sample, elapsed time > 0 (dt > 0) and a previous soc other than its start
\* soc, so that _make_half_cycle never takes its fallback values at a
\* finalization.
C29_FinalizedHalfCyclesNonEmpty ==
    /\ \A r \in 1..Len(finalized) :
          /\ finalized[r].depth_of_discharge > 0
          /\ finalized[r].full_equivalent_cycles > 0
    /\ (Sampled /\ det_ret) =>
          /\ det.total_fec > det_pre.total_fec
          /\ det_pre.soc_samples >= 1
          /\ det_pre.elapsed_time > 0
    /\ (Sampled /\ det_pre.direction # 0) => det.direction # 0
    /\ det.direction # 0 =>
          /\ det.soc_samples >= 1
          /\ det.elapsed_time > 0
          /\ det.prev_soc # det.start_soc

\* a reversal right after a reversal: the half-cycle finalized consists of the
\* one sample that reversed into it
C29_Witness ==
    /\ Sampled
    /\ det_ret
    /\ Len(finalized) = 3
    /\ det_pre.soc_samples = 1
    /\ det_pre.elapsed_time = 60
    /\ finalized[3].depth_of_discharge > 0
    /\ det.total_fec > det_pre.total_fec

(* ------------------------------------------------------------------ *)
(* the soc step of Battery.update (specification Spec)                *)
(* ------------------------------------------------------------------ *)
\* C26: for a battery whose soc is inside its window, Battery.update with
\* power_setpoint > 0 never decreases state.soc (and commits no discharge
\* current) and with power_setpoint < 0 never increases it (and commits no
\* charge current); holding after every call from every reachable state, this
\* makes the soc trace of any run of same-sign setpoints monotonic.
C26_SocNeverAgainstRequest ==
    (Updated /\ soc_min <= pre.soc /\ pre.soc <= soc_max) =>
        /\ call.power_setpoint > 0 => (state.soc >= pre.soc /\ (raised \/ state.i >= 0))
        /\ call.power_setpoint < 0 => (state.soc <= pre.soc /\ (raised \/ state.i <= 0))

\* a discharge request that follows a discharge request on a derated battery:
\* both have moved current and the soc has gone down again
C26_Witness ==
    /\ Committed
    /\ steps >= 2
    /\ has_linear_derating(config)
    /\ call.power_setpoint < 0
    /\ pre.power_setpoint < 0
    /\ pre.i < 0
    /\ state.i < 0
    /\ state.soc < pre.soc

\* state.soc + i * dt / Q / 3600 of the last update, before the clamp, from
\* the committed current
unclamped ==
    unclamped_soc(config, pre.soc, state.i, call.dt, capacity(pre),
                  soc_limit_binds(config, pre.soc, state.i, call.dt, capacity(pre)),
                  ~past_derate_start /\ call.rounding.soc_past_bound)

\* how far the unclamped soc lies outside the window
overshoot == Max3(unclamped - soc_max, soc_min - unclamped, 0)

\* the soc candidate of calculate_max_currents on the side of the committed
\* current
soc_candidate ==
    soc_limit_current(IF state.i > 0 THEN soc_max ELSE soc_min,
                      pre.soc, call.dt, capacity(pre))

\* C27 as stated: whenever state.soc is inside [soc_min, soc_max] before
\* Battery.update, the unclamped soc + i * dt / (3600 * Q) of the committed
\* current is inside the window, so the committed soc is the unclamped one.
C27_ClampNeverActs ==
    (Committed /\ soc_min <= pre.soc /\ pre.soc <= soc_max) =>
        /\ soc_min <= unclamped
        /\ unclamped <= soc_max
        /\ state.soc = unclamped

\* C27 amended: the unclamped soc passes a bound of the window only by the
\* rounding of the floating-point arithmetic (a unit in the last place, which
\* the soc grid shows as one step), and only when the committed current is
\* the soc candidate of calculate_max_currents, which carries the soc to the
\* bound, and derating has not reduced it; the clamp then commits the bound
\* itself, and in every other case the committed soc is the unclamped one.
C27_ClampAbsorbsRoundingOnly ==
    (Committed /\ soc_min <= pre.soc /\ pre.soc <= soc_max) =>
        LET before_clamp == unclamped
            past == Max3(before_clamp - soc_max, soc_min - before_clamp, 0)
        IN  /\ past = overshoot
            /\ past <= 1
            /\ past > 0 =>
                  /\ state.i # 0
                  /\ state.i = soc_candidate
                  /\ state.i = twin.i
                  /\ call.rounding.soc_past_bound
                  /\ state.soc = (IF state.i > 0 THEN soc_max ELSE soc_min)
            /\ past = 0 => state.soc = before_clamp

\* the soc candidate binds a charge from soc 0.3 to the upper bound 0.9 of
\* the window in an hour, below the C-rate and the voltage candidate, and
\* the sum is computed past the bound
C27_Witness ==
    /\ Committed
    /\ pre.soc = 3 * (SocScale \div 10)
    /\ call.dt = SecondsPerHour
    /\ state.i > 0
    /\ state.i = soc_candidate
    /\ state.i < max_charge_current
    /\ unclamped > soc_max
    /\ state.soc = soc_max

(* ------------------------------------------------------------------ *)
(* the committed current as a function of the setpoint                *)
(* (specification Spec)                                               *)
(* ------------------------------------------------------------------ *)
\* C30: for a fixed state at entry and a fixed dt, the committed current of
\* Battery.update is non-decreasing in power_setpoint: no larger setpoint,
\* applied to the state the last call started from, commits a smaller current
\* than the last call did, with or without linear voltage derating configured
\* and also when the voltage limit is the binding hard limit.
C30_CurrentMonotoneInSetpoint ==
    Committed =>
        \A p \in PowerSetpoints :
            p >= call.power_setpoint =>
                LET nearest == Battery_update(config, pre, p, call.dt, Nearest)
                IN  \A fp \in RoundingsOf(nearest.depends) :
                        LET other == rounded(nearest, config, pre, p, call.dt, fp)
                        IN  other.raised \/ other.state.i >= state.i

====
